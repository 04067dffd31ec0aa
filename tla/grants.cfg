SPECIFICATION Spec
CONSTANTS
  Tenants = {t1}
  Workers = {w1, w2}
  GrantSpan = 4
  MaxAppVersion = 3
  MaxGrantVersion = 3
SYMMETRY Symmetry
INVARIANT TypeOK
INVARIANT GrantHistory
INVARIANT SearchVersionsDistinct
INVARIANT GrantChangesOrdered
INVARIANT GrantedIsSearchable
