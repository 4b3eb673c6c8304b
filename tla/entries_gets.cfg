\* One literal whose getter may write, grow, delete from or freeze the object
\* while Object.entries walks it.
CONSTANTS
  a = a b = b i1 = i1 lone = lone box = box site_a = site_a u = u v = v get = get
  Unset = Unset None = None
  Key = {a, b}
  Numeric <- MCPlain
  FirstCapacity = 1 MaxShapes = 4
  Dyn = {lone} Fixed = {} Declared = {}
  Proto <- MCLone
  Site = {site_a} SiteKey <- MCSites
  Data = {u, v} Cell = {get} Getter = {get} Setter = {}
SPECIFICATION WalkSpec
PROPERTIES EntriesAreGets
