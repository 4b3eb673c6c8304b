\* A fixed object with one declared field and an overflow table, beside a
\* dynamic object whose shapes it shares and whose entries are walked by getters
\* that write, grow, delete from or freeze either.  A delete of the declared field
\* ends the program.
CONSTANTS
  a = a b = b i1 = i1 lone = lone box = box site_a = site_a u = u v = v get = get
  Unset = Unset None = None
  Key = {a, i1}
  Numeric <- MCIndexed
  FirstCapacity = 1 MaxShapes = 4
  Dyn = {lone} Fixed = {box} Declared = {a}
  Proto <- MCLone
  Site = {site_a} SiteKey <- MCSites
  Data = {u} Cell = {get} Getter = {get} Setter = {}
SPECIFICATION WalkSpec
CHECK_DEADLOCK FALSE
INVARIANTS SlotsLive FreezeInv OneShapePerHistory WalkInv WalkReadsStored
PROPERTIES FrozenStays LockedStays
