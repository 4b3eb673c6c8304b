\* The typed path, the property path and Object.freeze on a fixed object.
CONSTANTS
  a = a b = b i1 = i1 proto = proto inst = inst lone = lone box = box
  site_a = site_a site_b = site_b u = u v = v get = get both = both
  Unset = Unset None = None
  Key = {a, b}
  Numeric <- MCPlain
  FirstCapacity = 1 MaxShapes = 4
  Dyn = {} Fixed = {box} Declared = {a}
  Proto <- MCNone
  Site = {site_a, site_b} SiteKey <- MCSites
  Data = {u, v} Cell = {} Getter = {} Setter = {}
SPECIFICATION Spec
CHECK_DEADLOCK FALSE
PROPERTIES FrozenFieldsStay
