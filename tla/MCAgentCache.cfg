SPECIFICATION Spec
CONSTANTS
  a = a
  m1 = m1
  m2 = m2
  page = page
  infinite = infinite
  Agents = {a}
  Mutations = {m1, m2}
  Target <- MCTarget
  Pages = {page}
  Infinite = {infinite}
  Watched = {page, a}
  Missing = Missing
  MaxFetches = 3
SYMMETRY MutationsAreAlike
INVARIANT FreshIsTrue
CHECK_DEADLOCK FALSE
