\* An instance and its prototype, which may be a literal with accessors.
CONSTANTS
  a = a b = b i1 = i1 proto = proto inst = inst lone = lone box = box
  site_a = site_a site_b = site_b u = u v = v get = get both = both
  Unset = Unset None = None
  Key = {a, i1}
  Numeric <- MCIndexed
  FirstCapacity = 1 MaxShapes = 4
  Dyn = {proto, inst} Fixed = {} Declared = {}
  Proto <- MCChain
  Site = {site_a} SiteKey <- MCSiteA
  Data = {u} Cell = {get, both} Getter = {get, both} Setter = {both}
SPECIFICATION Spec
INVARIANTS CacheExact
PROPERTIES ImplementsRecords
