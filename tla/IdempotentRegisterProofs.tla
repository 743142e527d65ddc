------------------------ MODULE IdempotentRegisterProofs ------------------------
(***************************************************************************)
(* Proofs about IdempotentRegister for every set of calls, functions and   *)
(* keys, finite or not, and every nesting relation.                        *)
(*                                                                         *)
(* AppliedOnce alone is not inductive: a step that takes effect must know  *)
(* that no other call is in the same body (LockInv), that the key is still *)
(* open (OpenInv), that a completed call's key is in the seen-set          *)
(* (SeenIsRegistered) and that it alone put it there (RegisteredOnce).     *)
(***************************************************************************)
EXTENDS IdempotentRegister, TLAPS

\* A call has a request exactly when it entered the wrapper, and an outcome
\* exactly when it has one to hand back.
PlaceInv ==
  \A c \in Calls :
    /\ pc[c] \in {"idle", "rejected"} <=> request[c] = None
    /\ pc[c] \in {"idle", "waiting", "checking", "running", "applied"} => outcome[c] = "none"
    /\ pc[c] = "rejected" => outcome[c] = "raised"
    /\ pc[c] \in {"leaving", "done"} => outcome[c] # "none"

\* Inside the with block a call holds the lock of its function.
LockInv == \A c \in Calls : pc[c] \in Held => lock[Fn(c)] = c

\* A body runs for a key that is not recorded.
OpenInv == \A c \in Calls : pc[c] \in InBody => Key(c) \notin seen[Fn(c)]

\* A call that took effect is still in the with block or has been answered.
AppliedInv ==
  \A c \in Calls :
    /\ c \in applied => \/ pc[c] = "applied"
                        \/ outcome[c] \in {"registered", "raised"} /\ pc[c] \in {"leaving", "done"}

\* A key is completed by one call.
RegisteredOnce ==
  \A c, d \in Calls :
    outcome[c] = "registered" /\ outcome[d] = "registered" /\ SameKey(c, d) => c = d

IInv ==
  /\ TypeOK
  /\ PlaceInv
  /\ LockInv
  /\ OpenInv
  /\ AppliedInv
  /\ RegisteredOnce
  /\ SeenIsRegistered

-----------------------------------------------------------------------------
(* Lemmas *)

\* The request of a call that entered the wrapper names a function and a key.
LEMMA RequestTyped ==
  ASSUME TypeOK, NEW c \in Calls, request[c] # None
  PROVE  Fn(c) \in Fns /\ Key(c) \in Keys /\ request[c] = [fn |-> Fn(c), obj |-> request[c].obj]
  BY StrAssumption DEF TypeOK, Fn, Key

\* Two calls inside the with block of one function are the same call.
LEMMA MutualExclusion ==
  ASSUME LockInv, NEW c \in Calls, NEW d \in Calls,
         pc[c] \in Held, pc[d] \in Held, Fn(c) = Fn(d)
  PROVE  c = d
  BY DEF LockInv

LEMMA InitIInv == Init => IInv
<1> SUFFICES ASSUME Init PROVE IInv
  OBVIOUS
<1>1. TypeOK
  BY DEF Init, TypeOK, Places, Held, Outcomes
<1>2. PlaceInv /\ LockInv /\ OpenInv /\ AppliedInv /\ RegisteredOnce
  BY DEF Init, PlaceInv, LockInv, OpenInv, AppliedInv, RegisteredOnce, Held, InBody
<1>3. SeenIsRegistered
  BY DEF Init, SeenIsRegistered
<1> QED
  BY <1>1, <1>2, <1>3 DEF IInv

LEMMA EnterIInv ==
  ASSUME IInv, NEW c \in Calls, NEW f \in Fns, NEW o \in Objs,
         NEW p \in Calls \cup {None}, Enter(c, f, o, p)
  PROVE  IInv'
<1> USE DEF IInv, Enter, Goto
<1>0. [fn |-> f, obj |-> o] # None
  BY NoneAssumption
<1>1. TypeOK'
  BY DEF TypeOK, Places
<1>2. PlaceInv'
  BY <1>0 DEF PlaceInv, TypeOK
<1>3. \A d \in Calls : d # c => Fn(d)' = Fn(d) /\ Key(d)' = Key(d)
  BY DEF TypeOK, Fn, Key
<1>4. LockInv' /\ OpenInv'
  BY <1>3 DEF LockInv, OpenInv, TypeOK, Held, InBody
<1>5. AppliedInv'
  BY DEF AppliedInv, PlaceInv, TypeOK
<1>6. outcome[c] # "registered"
  BY DEF PlaceInv
<1>7. RegisteredOnce'
  BY <1>3, <1>6 DEF RegisteredOnce, SameKey, Entered, TypeOK
<1>8. SeenIsRegistered'
  BY <1>3, <1>6 DEF SeenIsRegistered, TypeOK
<1> QED
  BY <1>1, <1>2, <1>4, <1>5, <1>7, <1>8

LEMMA RejectIInv ==
  ASSUME IInv, NEW c \in Calls, Reject(c)
  PROVE  IInv'
<1> USE DEF IInv, Reject, Goto
<1>1. TypeOK'
  BY DEF TypeOK, Places, Outcomes
<1>2. PlaceInv'
  BY DEF PlaceInv, TypeOK
<1>3. \A d \in Calls : Fn(d)' = Fn(d) /\ Key(d)' = Key(d)
  BY DEF Fn, Key
<1>4. LockInv' /\ OpenInv'
  BY <1>3 DEF LockInv, OpenInv, TypeOK, Held, InBody
<1>5. AppliedInv'
  BY DEF AppliedInv, PlaceInv, TypeOK
<1>6. \A d \in Calls : outcome'[d] = "registered" <=> outcome[d] = "registered"
  BY DEF PlaceInv, TypeOK
<1>7. RegisteredOnce'
  BY <1>3, <1>6 DEF RegisteredOnce, SameKey, Entered
<1>8. SeenIsRegistered'
  BY <1>3, <1>6 DEF SeenIsRegistered
<1> QED
  BY <1>1, <1>2, <1>4, <1>5, <1>7, <1>8

LEMMA AcquireIInv ==
  ASSUME IInv, NEW c \in Calls, Acquire(c)
  PROVE  IInv'
<1> USE DEF IInv, Acquire, Goto
<1>1. TypeOK'
  BY DEF TypeOK, Places, Held
<1>2. PlaceInv'
  BY DEF PlaceInv, TypeOK
<1>3. \A d \in Calls : Fn(d)' = Fn(d) /\ Key(d)' = Key(d)
  BY DEF Fn, Key
<1>4. Fn(c) \in Fns
  BY RequestTyped DEF PlaceInv
<1>5. ASSUME NEW d \in Calls, pc'[d] \in Held
      PROVE  lock'[Fn(d)] = d
  <2>1. CASE d = c
    BY <1>4, <2>1 DEF TypeOK
  <2>2. CASE d # c
    <3>1. lock[Fn(d)] = d
      BY <1>5, <2>2 DEF LockInv, TypeOK
    <3>2. Fn(d) # Fn(c)
      BY <3>1, NoneAssumption
    <3> QED
      BY <1>4, <3>1, <3>2 DEF TypeOK
  <2> QED
    BY <2>1, <2>2
<1>6. LockInv'
  BY <1>3, <1>5 DEF LockInv
<1>7. OpenInv' /\ AppliedInv'
  BY <1>3 DEF OpenInv, AppliedInv, PlaceInv, TypeOK, InBody
<1>8. RegisteredOnce' /\ SeenIsRegistered'
  BY <1>3 DEF RegisteredOnce, SeenIsRegistered, SameKey, Entered
<1> QED
  BY <1>1, <1>2, <1>6, <1>7, <1>8

LEMMA SkipIInv ==
  ASSUME IInv, NEW c \in Calls, Skip(c)
  PROVE  IInv'
<1> USE DEF IInv, Skip, Goto
<1>1. TypeOK'
  BY DEF TypeOK, Places, Held, Outcomes
<1>2. PlaceInv'
  BY DEF PlaceInv, TypeOK
<1>3. \A d \in Calls : Fn(d)' = Fn(d) /\ Key(d)' = Key(d)
  BY DEF Fn, Key
<1>4. LockInv' /\ OpenInv'
  BY <1>3 DEF LockInv, OpenInv, TypeOK, Held, InBody
<1>5. AppliedInv'
  BY DEF AppliedInv, PlaceInv, TypeOK
<1>6. \A d \in Calls : outcome'[d] = "registered" <=> outcome[d] = "registered"
  BY DEF PlaceInv, TypeOK
<1>7. RegisteredOnce' /\ SeenIsRegistered'
  BY <1>3, <1>6 DEF RegisteredOnce, SeenIsRegistered, SameKey, Entered
<1> QED
  BY <1>1, <1>2, <1>4, <1>5, <1>7

LEMMA InvokeIInv ==
  ASSUME IInv, NEW c \in Calls, Invoke(c)
  PROVE  IInv'
<1> USE DEF IInv, Invoke, Goto
<1>1. TypeOK'
  BY DEF TypeOK, Places, Held
<1>2. PlaceInv'
  BY DEF PlaceInv, TypeOK
<1>3. \A d \in Calls : Fn(d)' = Fn(d) /\ Key(d)' = Key(d)
  BY DEF Fn, Key
<1>4. LockInv' /\ OpenInv'
  BY <1>3 DEF LockInv, OpenInv, TypeOK, Held, InBody
<1>5. AppliedInv'
  BY DEF AppliedInv, PlaceInv, TypeOK
<1>6. RegisteredOnce' /\ SeenIsRegistered'
  BY <1>3 DEF RegisteredOnce, SeenIsRegistered, SameKey, Entered
<1> QED
  BY <1>1, <1>2, <1>4, <1>5, <1>6

LEMMA TakeEffectIInv ==
  ASSUME IInv, NEW c \in Calls, TakeEffect(c)
  PROVE  IInv'
<1> USE DEF IInv, TakeEffect, Goto
<1>1. TypeOK'
  BY DEF TypeOK, Places, Held
<1>2. PlaceInv'
  BY DEF PlaceInv, TypeOK
<1>3. \A d \in Calls : Fn(d)' = Fn(d) /\ Key(d)' = Key(d)
  BY DEF Fn, Key
<1>4. LockInv' /\ OpenInv'
  BY <1>3 DEF LockInv, OpenInv, TypeOK, Held, InBody
<1>5. AppliedInv'
  BY DEF AppliedInv, PlaceInv, TypeOK
<1>6. RegisteredOnce' /\ SeenIsRegistered'
  BY <1>3 DEF RegisteredOnce, SeenIsRegistered, SameKey, Entered
<1> QED
  BY <1>1, <1>2, <1>4, <1>5, <1>6

\* The step the argument is about: the key joins the seen-set while no other
\* call is in the body, and no earlier call completed it.
LEMMA FnReturnIInv ==
  ASSUME IInv, NEW c \in Calls, FnReturn(c)
  PROVE  IInv'
<1> USE DEF IInv, FnReturn, Goto
<1>1. Fn(c) \in Fns /\ Key(c) \in Keys /\ Entered(c)
  BY RequestTyped DEF PlaceInv, Entered
<1>2. TypeOK'
  BY <1>1 DEF TypeOK, Places, Held, Outcomes
<1>3. PlaceInv'
  BY DEF PlaceInv, TypeOK
<1>4. \A d \in Calls : Fn(d)' = Fn(d) /\ Key(d)' = Key(d)
  BY DEF Fn, Key
<1>5. LockInv'
  BY <1>4 DEF LockInv, TypeOK, Held
<1>6. ASSUME NEW d \in Calls, pc'[d] \in InBody
      PROVE  Key(d) \notin seen'[Fn(d)]
  <2>1. d # c /\ pc[d] \in InBody /\ Key(d) \notin seen[Fn(d)]
    BY <1>6 DEF TypeOK, InBody, OpenInv
  <2>2. Fn(d) # Fn(c)
    BY <2>1, MutualExclusion DEF Held, InBody
  <2> QED
    BY <1>1, <2>1, <2>2 DEF TypeOK
<1>7. OpenInv'
  BY <1>4, <1>6 DEF OpenInv
<1>8. AppliedInv'
  BY DEF AppliedInv, TypeOK
<1>9. \A d \in Calls : outcome'[d] = "registered" <=> d = c \/ outcome[d] = "registered"
  BY DEF TypeOK
<1>10. \A d \in Calls : outcome[d] = "registered" => ~SameKey(c, d) /\ ~SameKey(d, c)
  <2>1. Key(c) \notin seen[Fn(c)]
    BY DEF OpenInv, InBody
  <2> QED
    BY <1>1, <2>1 DEF SeenIsRegistered, SameKey
<1>11. \A d, e \in Calls : SameKey(d, e)' <=> SameKey(d, e)
  BY <1>4 DEF SameKey, Entered
<1>12. RegisteredOnce'
  BY <1>9, <1>10, <1>11 DEF RegisteredOnce
<1>13. SeenIsRegistered'
  <2> SUFFICES ASSUME NEW f \in Fns
               PROVE  seen'[f] = {Key(d) : d \in {e \in Calls : outcome'[e] = "registered" /\ Fn(e) = f}}
    BY <1>4 DEF SeenIsRegistered
  <2>1. seen[f] = {Key(d) : d \in {e \in Calls : outcome[e] = "registered" /\ Fn(e) = f}}
    BY DEF SeenIsRegistered
  <2>2. CASE f = Fn(c)
    BY <1>9, <2>1, <2>2 DEF TypeOK
  <2>3. CASE f # Fn(c)
    BY <1>1, <1>9, <2>1, <2>3 DEF TypeOK
  <2> QED
    BY <2>2, <2>3
<1> QED
  BY <1>2, <1>3, <1>5, <1>7, <1>8, <1>12, <1>13

LEMMA FnRaiseIInv ==
  ASSUME IInv, NEW c \in Calls, FnRaise(c)
  PROVE  IInv'
<1> USE DEF IInv, FnRaise, Goto
<1>0. pc[c] \in InBody /\ pc' = [pc EXCEPT ![c] = "leaving"]
  OBVIOUS
<1>1. TypeOK'
  BY <1>0 DEF TypeOK, Places, Held, Outcomes
<1>2. PlaceInv'
  BY <1>0 DEF PlaceInv, TypeOK, InBody
<1>3. \A d \in Calls : Fn(d)' = Fn(d) /\ Key(d)' = Key(d)
  BY DEF Fn, Key
<1>4. LockInv' /\ OpenInv'
  BY <1>0, <1>3 DEF LockInv, OpenInv, TypeOK, Held, InBody
<1>5. AppliedInv'
  BY <1>0 DEF AppliedInv, TypeOK
<1>6. \A d \in Calls : outcome'[d] = "registered" <=> outcome[d] = "registered"
  BY <1>0 DEF PlaceInv, TypeOK, InBody
<1>7. RegisteredOnce' /\ SeenIsRegistered'
  BY <1>3, <1>6 DEF RegisteredOnce, SeenIsRegistered, SameKey, Entered
<1> QED
  BY <1>1, <1>2, <1>4, <1>5, <1>7

LEMMA ReleaseIInv ==
  ASSUME IInv, NEW c \in Calls, Release(c)
  PROVE  IInv'
<1> USE DEF IInv, Release, Goto
<1>1. TypeOK'
  BY DEF TypeOK, Places
<1>2. PlaceInv'
  BY DEF PlaceInv, TypeOK
<1>3. \A d \in Calls : Fn(d)' = Fn(d) /\ Key(d)' = Key(d)
  BY DEF Fn, Key
<1>4. ASSUME NEW d \in Calls, pc'[d] \in Held
      PROVE  lock'[Fn(d)] = d
  <2>1. d # c /\ pc[d] \in Held
    BY <1>4 DEF TypeOK, Held
  <2>2. Fn(d) # Fn(c)
    BY <2>1, MutualExclusion DEF Held
  <2> QED
    BY <2>1, <2>2 DEF LockInv, TypeOK
<1>5. LockInv'
  BY <1>3, <1>4 DEF LockInv
<1>6. OpenInv' /\ AppliedInv'
  BY <1>3 DEF OpenInv, AppliedInv, PlaceInv, TypeOK, InBody
<1>7. RegisteredOnce' /\ SeenIsRegistered'
  BY <1>3 DEF RegisteredOnce, SeenIsRegistered, SameKey, Entered
<1> QED
  BY <1>1, <1>2, <1>5, <1>6, <1>7

LEMMA NextIInv == IInv /\ [Next]_vars => IInv'
<1> SUFFICES ASSUME IInv, [Next]_vars PROVE IInv'
  OBVIOUS
<1>1. ASSUME NEW c \in Calls, NEW f \in Fns, NEW o \in Objs, NEW p \in Calls \cup {None},
             Enter(c, f, o, p)
      PROVE  IInv'
  BY <1>1, EnterIInv
<1>2. ASSUME NEW c \in Calls, Reject(c) PROVE IInv'
  BY <1>2, RejectIInv
<1>3. ASSUME NEW c \in Calls, Step(c) PROVE IInv'
  BY <1>3, AcquireIInv, SkipIInv, InvokeIInv, TakeEffectIInv, FnReturnIInv, FnRaiseIInv,
     ReleaseIInv DEF Step
<1>4. CASE UNCHANGED vars
  BY <1>4 DEF vars, IInv, TypeOK, PlaceInv, LockInv, OpenInv, AppliedInv, RegisteredOnce,
     SeenIsRegistered, SameKey, Entered, Fn, Key
<1> QED
  BY <1>1, <1>2, <1>3, <1>4 DEF Next, Finished

LEMMA InvariantHolds == Spec => []IInv
  BY InitIInv, NextIInv, PTL DEF Spec

-----------------------------------------------------------------------------
(* Theorems *)

\* The wrapper's state stays well typed: the seen-sets hold strings only.
THEOREM TypeCorrect == Spec => []TypeOK
<1>1. IInv => TypeOK
  BY DEF IInv
<1> QED
  BY <1>1, InvariantHolds, PTL

\* The seen-sets record the completed registrations, no more and no less.
THEOREM SeenSetsExact == Spec => []SeenIsRegistered
<1>1. IInv => SeenIsRegistered
  BY DEF IInv
<1> QED
  BY <1>1, InvariantHolds, PTL

\* However many threads and nested bodies, a registration is applied again only
\* after the call that applied it raised.
THEOREM RegistrationAppliedOnce == Spec => []AppliedOnce
<1>1. IInv => AppliedOnce
  <2> SUFFICES ASSUME IInv, NEW c \in applied, NEW d \in applied, SameKey(c, d),
                      outcome[c] # "raised", outcome[d] # "raised"
               PROVE  c = d
    BY DEF AppliedOnce
  <2>1. c \in Calls /\ d \in Calls
    BY DEF IInv, TypeOK
  <2>2. /\ pc[c] = "applied" \/ outcome[c] = "registered"
        /\ pc[d] = "applied" \/ outcome[d] = "registered"
    BY <2>1 DEF IInv, AppliedInv
  <2>3. CASE pc[c] = "applied" /\ pc[d] = "applied"
    BY <2>1, <2>3, MutualExclusion DEF IInv, Held, SameKey
  <2>4. CASE outcome[c] = "registered" /\ outcome[d] = "registered"
    BY <2>1, <2>4 DEF IInv, RegisteredOnce
  <2>5. \A e, g \in Calls :
          pc[e] = "applied" /\ outcome[g] = "registered" => ~(Fn(e) = Fn(g) /\ Key(e) = Key(g))
    <3> SUFFICES ASSUME NEW e \in Calls, NEW g \in Calls, pc[e] = "applied",
                        outcome[g] = "registered", Fn(e) = Fn(g), Key(e) = Key(g)
                 PROVE  FALSE
      OBVIOUS
    <3>1. Key(e) \notin seen[Fn(e)]
      BY DEF IInv, OpenInv, InBody
    <3>2. Fn(e) \in Fns
      BY RequestTyped DEF IInv, PlaceInv
    <3> QED
      BY <3>1, <3>2 DEF IInv, SeenIsRegistered
  <2> QED
    BY <2>1, <2>2, <2>3, <2>4, <2>5 DEF SameKey
<1> QED
  BY <1>1, InvariantHolds, PTL

-----------------------------------------------------------------------------
(* Refinement *)

\* The answer of a call as RegisterOnce sees it.
AbsRequest == [c \in Calls |-> IF Entered(c) THEN [fn |-> Fn(c), key |-> Key(c)] ELSE None]
AbsResult == [c \in Calls |-> IF Entered(c) THEN outcome[c] ELSE "none"]

\* The request of a call never changes once it is made, and steps that answer
\* no call leave RegisterOnce's variables alone.
LEMMA SilentStep ==
  ASSUME UNCHANGED <<request, seen, outcome>>
  PROVE  UNCHANGED Once!vars
  BY DEF Once!vars, Entered, Fn, Key

LEMMA AnswerStep ==
  ASSUME TypeOK, NEW c \in Calls, Entered(c), outcome[c] = "none", UNCHANGED request,
         NEW r \in Outcomes, outcome' = [outcome EXCEPT ![c] = r]
  PROVE  Once!Answer(c, r)
<1>1. AbsRequest' = AbsRequest
  BY DEF AbsRequest, Entered, Fn, Key
<1>2. AbsResult' = [AbsResult EXCEPT ![c] = r]
  BY DEF AbsResult, Entered, TypeOK
<1>3. AbsRequest[c] # None
  <2>1. Fn(c) \in Fns /\ Key(c) \in Keys
    BY RequestTyped DEF Entered
  <2> QED
    BY <2>1, NoneAssumption DEF AbsRequest
<1> QED
  BY <1>1, <1>2, <1>3 DEF Once!Answer, AbsRequest, AbsResult

\* The three answers are given where the wrapper decides them: at the return of
\* the body, at the membership test and at the exception.
LEMMA StepRefines ==
  ASSUME IInv, NEW c \in Calls, Step(c)
  PROVE  [Once!Next]_(Once!vars)
<1>1. pc[c] \notin {"idle", "rejected"}
  BY DEF Step, Acquire, Skip, Invoke, TakeEffect, FnReturn, FnRaise, Release, Goto, InBody
<1>2. Entered(c) /\ Fn(c) \in Fns /\ Key(c) \in Keys /\ TypeOK
  BY <1>1, RequestTyped DEF IInv, PlaceInv, Entered
<1>3. AbsRequest[c].fn = Fn(c) /\ AbsRequest[c].key = Key(c)
  BY <1>2 DEF AbsRequest
<1>4. CASE Acquire(c) \/ Invoke(c) \/ TakeEffect(c) \/ Release(c)
  BY <1>4, SilentStep DEF Acquire, Invoke, TakeEffect, Release
<1>5. CASE Skip(c)
  <2>1. Once!Answer(c, "skipped")
    BY <1>2, <1>5, AnswerStep DEF Skip, Goto, IInv, PlaceInv, Outcomes
  <2>2. Once!Skips(c)
    BY <1>3, <1>5, <2>1 DEF Skip, Once!Skips, AbsRequest
  <2> QED
    BY <2>2 DEF Once!Next
<1>6. CASE FnReturn(c)
  <2>1. Once!Answer(c, "registered")
    BY <1>2, <1>6, AnswerStep DEF FnReturn, Goto, IInv, PlaceInv, Outcomes
  <2>2. Key(c) \notin seen[Fn(c)]
    BY <1>6 DEF FnReturn, Goto, IInv, OpenInv, InBody
  <2>3. seen' = [seen EXCEPT ![AbsRequest[c].fn] = @ \cup {AbsRequest[c].key}]
    BY <1>3, <1>6 DEF FnReturn
  <2>4. AbsRequest[c].key \notin seen[AbsRequest[c].fn]
    BY <1>3, <2>2
  <2>5. Once!Registers(c)
    BY <2>1, <2>3, <2>4, Zenon DEF Once!Registers, AbsRequest
  <2> QED
    BY <2>5 DEF Once!Next
<1>7. CASE FnRaise(c)
  <2>1. Once!Answer(c, "raised")
    BY <1>2, <1>7, AnswerStep DEF FnRaise, Goto, IInv, PlaceInv, Outcomes, InBody
  <2>2. Key(c) \notin seen[Fn(c)]
    BY <1>7 DEF FnRaise, Goto, IInv, OpenInv
  <2>3. Once!Raises(c)
    BY <1>3, <1>7, <2>1, <2>2 DEF FnRaise, Once!Raises, AbsRequest
  <2> QED
    BY <2>3 DEF Once!Next
<1> QED
  BY <1>4, <1>5, <1>6, <1>7 DEF Step

LEMMA EnterRefines ==
  ASSUME IInv, NEW c \in Calls, NEW f \in Fns, NEW o \in Objs,
         NEW p \in Calls \cup {None}, Enter(c, f, o, p)
  PROVE  [Once!Next]_(Once!vars)
<1>1. TypeOK /\ ~Entered(c) /\ outcome[c] = "none"
  BY DEF IInv, PlaceInv, Entered, Enter, Goto
<1>2. Str[o] \in Keys
  BY StrAssumption
<1>3. [fn |-> f, obj |-> o] # None
  BY NoneAssumption
<1>4. AbsRequest' = [AbsRequest EXCEPT ![c] = [fn |-> f, key |-> Str[o]]]
  BY <1>1, <1>3 DEF AbsRequest, Entered, Enter, TypeOK, Fn, Key
<1>5. AbsResult' = AbsResult
  BY <1>1 DEF AbsResult, Entered, Enter, TypeOK
<1>6. AbsRequest[c] = None
  BY <1>1 DEF AbsRequest
<1>7. Once!Submit(c, f, Str[o])
  BY <1>4, <1>5, <1>6 DEF Once!Submit, AbsRequest, AbsResult, Enter
<1> QED
  BY <1>2, <1>7 DEF Once!Next

\* A rejected call never entered: its outcome is not an answer of the wrapper.
LEMMA RejectRefines ==
  ASSUME IInv, NEW c \in Calls, Reject(c)
  PROVE  UNCHANGED Once!vars
<1>1. TypeOK /\ ~Entered(c)
  BY DEF IInv, PlaceInv, Entered, Reject, Goto
<1>2. AbsRequest' = AbsRequest
  BY DEF AbsRequest, Entered, Reject, Fn, Key
<1>3. AbsResult' = AbsResult
  BY <1>1 DEF AbsResult, Entered, Reject, TypeOK
<1> QED
  BY <1>2, <1>3 DEF Once!vars, AbsRequest, AbsResult, Reject

\* Concurrent, nested calls of a decorated function look to their callers like
\* indivisible ones that register each key once and skip only registered keys.
THEOREM WrapperImplementsRegisterOnce == Spec => ImplementsRegisterOnce
<1>1. Init => Once!Init
  BY DEF Init, Once!Init, Entered
<1>2. IInv /\ [Next]_vars => [Once!Next]_(Once!vars)
  <2> SUFFICES ASSUME IInv, [Next]_vars PROVE [Once!Next]_(Once!vars)
    OBVIOUS
  <2>1. CASE UNCHANGED vars
    BY <2>1, SilentStep DEF vars
  <2> QED
    BY <2>1, EnterRefines, RejectRefines, StepRefines DEF Next, Finished
<1> QED
  BY <1>1, <1>2, InvariantHolds, PTL DEF Spec, ImplementsRegisterOnce, Once!Spec

=============================================================================
