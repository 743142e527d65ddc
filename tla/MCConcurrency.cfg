SPECIFICATION MCConcurrencySpec
CONSTANTS
  outer = outer
  inner = inner
  int1 = int1
  str1 = str1
  other = other
  k1 = k1
  k2 = k2
  None = None
  Calls = {c1, c2, c3}
  Fns <- MCFns
  Objs <- MCObjs
  Keys <- MCKeys
  Str <- MCStr
  MayCall <- MCMayCall
  MaxCalls = 3
  Loops = {a, b}
  Plain = {p}
  Nobody = Nobody
  MaxWorkers = 2
INVARIANTS
  TypeOK
  AppliedOnce
  SeenIsRegistered
  AwaitedOnce
  NothingLeftBehind
PROPERTIES
  ImplementsRegisterOnce
  EveryCallLeaves
  ReturnsUnlessEntangled
