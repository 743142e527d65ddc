------------------------------- MODULE MergeQueueProofs -------------------------------
(***************************************************************************)
(* Proofs about MergeQueue for any proposals, any number of pull requests  *)
(* and any calendar: dev stays green but for dates that were announced,    *)
(* and each gate establishes on dev what it is there for.                  *)
(*                                                                         *)
(* Most of it does not depend on what Closure computes.  That it is the    *)
(* least set closed under requirements is a theorem of its own, and what   *)
(* two of the gates establish follows in terms of requirements alone.      *)
(***************************************************************************)
EXTENDS MergeQueue, FiniteSetTheorems, WellFoundedInduction, TLAPS

TypeInv ==
  /\ proposal \in Proposals
  /\ DOMAIN dev = Surfaces /\ WellFormed(dev)
  /\ pr \in [PRs -> proposal \cup {NoEdit}]
  /\ day \in Nat

\* The steps of the checks that look at nothing but dev's content hold on dev.
GreenInv ==
  BeforeRetention(dev) /\ AfterRetention(dev) /\ ParityGate(dev) /\ ProvenanceClean(dev)

\* The merge group does not look for git overrides, but the pull request's own run did, and
\* the table comes to dev as it was then.
ReviewedInv ==
  \A p \in PRs : (pr[p] # NoEdit /\ "sources" \in DOMAIN pr[p]) =>
    FindViolations(pr[p].sources) = {}

\* Whoever passes the check on a date's last day has it announced in the same run.
NoticeInv ==
  \A f \in Files : (Scanned(dev[f]) /\ dev[f].date # NoDate /\ dev[f].date <= day) =>
    <<f, dev[f].date>> \in notified

\* No released wheel had an upstream distribution in the lock file beside it.
PublishedInv == \A w \in published : w.lock \cap Upstream = {}

IInv == TypeInv /\ GreenInv /\ ReviewedInv /\ NoticeInv /\ PublishedInv

-----------------------------------------------------------------------------
(* What a merge leaves on dev *)

\* A merge takes each surface from the pull request or leaves it.
LEMMA MergedSurface ==
  ASSUME NEW edit, NEW s \in DOMAIN edit \cup DOMAIN dev
  PROVE  Merged(edit)[s] = IF s \in DOMAIN edit THEN edit[s] ELSE dev[s]
  BY DEF Merged

\* The shape of the repository survives a merge.
LEMMA MergedWellFormed ==
  ASSUME NEW edit, WellFormed(edit), WellFormed(dev), DOMAIN dev = Surfaces
  PROVE  DOMAIN Merged(edit) = Surfaces /\ WellFormed(Merged(edit))
<1> DEFINE m == Merged(edit)
<1>1. DOMAIN m = Surfaces
  BY DEF Merged, WellFormed
<1>2. ASSUME NEW s \in Surfaces  PROVE (m[s] = edit[s] /\ s \in DOMAIN edit) \/ m[s] = dev[s]
  BY MergedSurface
<1>3. {"sources", "declared", "hooks", "scripts", "testpaths", "testFiles", "step"} \subseteq Surfaces
  BY DEF Surfaces, PyprojectSurfaces
<1> HIDE DEF m
<1>4. \A e \in m.sources : e.sep \in {"-", "_", "."}
  BY <1>2, <1>3 DEF WellFormed
<1>5. /\ \A r \in m.declared : r.dist \in Dists
      /\ \A h \in m.hooks : h.runs \in Seq(DOMAIN InitialDev.scripts)
  BY <1>2, <1>3 DEF WellFormed
<1>6. m.scripts \in [DOMAIN InitialDev.scripts -> Seq(SUBSET STRING)]
  BY <1>2, <1>3 DEF WellFormed
<1>7. m.testpaths \subseteq Seq(STRING) /\ m.testFiles \subseteq Seq(STRING)
  BY <1>2, <1>3 DEF WellFormed
<1>8. m.step # NoStep => m.step \in Seq(STRING)
  BY <1>2, <1>3 DEF WellFormed
<1>9. \A f \in Files : m[f].date # NoDate => m[f].date \in Nat
  BY <1>2 DEF WellFormed, Surfaces
<1>10. WellFormed(m)
  BY <1>1, <1>4, <1>5, <1>6, <1>7, <1>8, <1>9 DEF WellFormed
<1> QED  BY <1>1, <1>10 DEF m

\* What dev declares are distributions there are.
LEMMA DeclaredKnown ==
  ASSUME TypeInv  PROVE \A r \in dev.declared : r.dist \in Dists
<1>1. "declared" \in DOMAIN dev
  BY DEF TypeInv, Surfaces, PyprojectSurfaces
<1> QED  BY <1>1 DEF TypeInv, WellFormed

\* A setting is a number of days, whatever the environment says.
LEMMA WindowIsNat == ASSUME NEW raw  PROVE ResolveWarnWindow(raw) \in Nat
  BY RetentionAssumption DEF ResolveWarnWindow

\* A file that passes the retention check on the day of its date is warned about in that run.
LEMMA LastDayWarned ==
  ASSUME NEW repo, NEW f \in Files, NEW commitDay, NEW today \in Nat, NEW raw,
         Scanned(repo[f]), repo[f].date # NoDate, repo[f].date = today, BeforeRetention(repo)
  PROVE  <<f, repo[f].date>> \in Printed(repo, commitDay, today, raw)
<1>1. ~Violated(repo[f], commitDay, today)
  BY DEF Violated
<1>2. repo[f].date - today <= ResolveWarnWindow(raw)
  BY WindowIsNat
<1>3. f \in Warnings(repo, commitDay, today, raw)
  BY <1>1, <1>2 DEF Warnings, Warned
<1> QED  BY <1>3 DEF Printed

-----------------------------------------------------------------------------
(* The invariant *)

\* The first dev satisfies it.
LEMMA InitIInv == Init => IInv
<1> SUFFICES ASSUME Init  PROVE IInv
  OBVIOUS
<1> USE InitialDevAssumption DEF Init
<1>1. TypeInv
  BY DEF TypeInv
<1>2. GreenInv
  BY DEF GreenInv, AfterRetention
<1>3. ReviewedInv
  BY DEF ReviewedInv
<1>4. NoticeInv
  <2> SUFFICES ASSUME NEW f \in Files, Scanned(dev[f]), dev[f].date # NoDate, dev[f].date <= day
               PROVE  FALSE
    BY DEF NoticeInv
  <2>1. dev[f].date > 0 /\ dev[f].date \in Nat
    BY DEF WellFormed, Surfaces
  <2> QED  BY <2>1
<1>5. PublishedInv
  BY DEF PublishedInv
<1> QED  BY <1>1, <1>2, <1>3, <1>4, <1>5 DEF IInv

\* A pull request whose checks pass: what it does to the sources has been looked at.
LEMMA OpenOrPushIInv ==
  ASSUME IInv, NEW p \in PRs, OpenOrPush(p)
  PROVE  IInv'
<1> USE DEF IInv
<1>1. PICK edit \in proposal \ {pr[p]} :
        PullRequestChecks(edit) /\ pr' = [pr EXCEPT ![p] = edit]
  BY DEF OpenOrPush
<1>2. UNCHANGED <<proposal, dev, merges, day, headDay, notified, index, published>>
  BY DEF OpenOrPush
<1>3. TypeInv'
  BY <1>1, <1>2 DEF TypeInv, WellFormed
<1>4. GreenInv'
  BY <1>2 DEF GreenInv, AfterRetention, BeforeRetention, WheelInstalls
<1>5. ASSUME "sources" \in DOMAIN edit  PROVE FindViolations(edit.sources) = {}
  <2>1. ProvenanceClean(Merged(edit))
    BY <1>1, <1>5 DEF PullRequestChecks, PyprojectSurfaces
  <2>2. Merged(edit).sources = edit.sources
    BY <1>5, MergedSurface
  <2> QED  BY <2>1, <2>2 DEF ProvenanceClean
<1>6. ReviewedInv'
  BY <1>1, <1>5 DEF ReviewedInv, TypeInv
<1>7. NoticeInv'
  BY <1>2 DEF NoticeInv
<1>8. PublishedInv'
  BY <1>2 DEF PublishedInv
<1> QED  BY <1>3, <1>4, <1>6, <1>7, <1>8

\* The merge group's checks are made of the very tree that dev becomes.
LEMMA MergeIInv ==
  ASSUME IInv, NEW p \in PRs, Merge(p)
  PROVE  IInv'
<1> USE DEF IInv
<1> DEFINE edit == pr[p]
<1>1. /\ edit # NoEdit
      /\ MergeGroupChecks(edit)
      /\ dev' = Merged(edit)
      /\ UNCHANGED <<proposal, day, index, published>>
  BY DEF Merge
<1>2. pr' = [q \in PRs |-> IF pr[q] # NoEdit /\ DOMAIN pr[q] \cap DOMAIN pr[p] = {}
                           THEN pr[q] ELSE NoEdit]
  BY DEF Merge
<1>3. PICK raw \in RawWindows : notified' = notified \cup Printed(dev', day, day, raw)
  BY DEF Merge
<1>4. edit \in proposal /\ WellFormed(edit)
  BY <1>1, ProposalsAssumption DEF TypeInv
<1> HIDE DEF edit
<1>5. DOMAIN dev' = Surfaces /\ WellFormed(dev')
  BY <1>1, <1>4, MergedWellFormed DEF TypeInv
<1>6. TypeInv'
  <2>1. pr' \in [PRs -> proposal \cup {NoEdit}]
    BY <1>2 DEF TypeInv
  <2> QED  BY <1>1, <1>5, <2>1 DEF TypeInv
<1>7. /\ BeforeRetention(dev') /\ RetentionClean(dev', day, day)
      /\ AfterRetention(dev') /\ ParityGate(dev')
  BY <1>1 DEF MergeGroupChecks, Validate
<1>8. ProvenanceClean(dev')
  <2>1. CASE "sources" \in DOMAIN edit
    <3>1. FindViolations(edit.sources) = {}
      BY <1>1, <2>1 DEF ReviewedInv, edit
    <3>2. dev'.sources = edit.sources
      BY <1>1, <2>1, MergedSurface
    <3> QED  BY <3>1, <3>2 DEF ProvenanceClean
  <2>2. CASE "sources" \notin DOMAIN edit
    <3>1. "sources" \in DOMAIN dev
      BY DEF TypeInv, Surfaces, PyprojectSurfaces
    <3>2. dev'.sources = dev.sources
      BY <1>1, <2>2, <3>1, MergedSurface
    <3> QED  BY <3>2 DEF ProvenanceClean, GreenInv
  <2> QED  BY <2>1, <2>2
<1>9. GreenInv'
  BY <1>1, <1>7, <1>8 DEF GreenInv, AfterRetention, WheelInstalls
<1>10. ReviewedInv'
  BY <1>2 DEF ReviewedInv
<1>11. NoticeInv'
  <2> SUFFICES ASSUME NEW f \in Files, Scanned(dev'[f]), dev'[f].date # NoDate,
                      dev'[f].date <= day
               PROVE  <<f, dev'[f].date>> \in notified'
    BY <1>1 DEF NoticeInv
  <2>1. dev'[f].date \in Nat /\ day \in Nat
    BY <1>5 DEF WellFormed, TypeInv, Surfaces
  <2>2. ~(dev'[f].date < day)
    BY <1>7 DEF RetentionClean, Violations, Violated
  <2>3. dev'[f].date = day
    BY <2>1, <2>2
  <2> QED  BY <1>3, <1>7, <2>1, <2>3, LastDayWarned
<1>12. PublishedInv'
  BY <1>1 DEF PublishedInv
<1> QED  BY <1>6, <1>9, <1>10, <1>11, <1>12

\* A date is announced on the night that it comes, at the latest.
LEMMA NextDayIInv ==
  ASSUME IInv, NextDay
  PROVE  IInv'
<1> USE DEF IInv
<1>1. UNCHANGED <<proposal, dev, pr, merges, headDay, index, published>>
  BY DEF NextDay
<1>2. day' = day + 1 /\ day \in Nat
  BY DEF NextDay, TypeInv
<1>3. PICK raw \in RawWindows : notified' = notified \cup Printed(dev, headDay, day', raw)
  BY DEF NextDay
<1>4. TypeInv'
  <2>1. DOMAIN dev' = Surfaces /\ WellFormed(dev)' /\ proposal' \in Proposals
        /\ pr' \in [PRs -> proposal' \cup {NoEdit}]
    BY <1>1 DEF TypeInv, WellFormed
  <2>2. day' \in Nat
    BY <1>2
  <2> QED  BY <2>1, <2>2 DEF TypeInv
<1>5. GreenInv'
  BY <1>1 DEF GreenInv, AfterRetention, BeforeRetention, WheelInstalls
<1>6. ReviewedInv'
  BY <1>1 DEF ReviewedInv
<1>7. NoticeInv'
  <2> SUFFICES ASSUME NEW f \in Files, Scanned(dev[f]), dev[f].date # NoDate,
                      dev[f].date <= day'
               PROVE  <<f, dev[f].date>> \in notified'
    BY <1>1 DEF NoticeInv
  <2>1. dev[f].date \in Nat /\ day \in Nat /\ day' \in Nat
    <3>1. dev[f].date \in Nat
      BY DEF WellFormed, TypeInv, Surfaces
    <3> QED  BY <1>2, <3>1
  <2>2. CASE dev[f].date <= day
    BY <1>3, <2>2 DEF NoticeInv
  <2>3. CASE dev[f].date = day'
    <3>1. BeforeRetention(dev)
      BY DEF GreenInv
    <3> QED  BY <1>3, <2>1, <2>3, <3>1, LastDayWarned
  <2>4. dev[f].date <= day \/ dev[f].date = day'
    BY <1>2, <2>1
  <2> QED  BY <2>2, <2>3, <2>4
<1>8. PublishedInv'
  BY <1>1 DEF PublishedInv
<1> QED  BY <1>4, <1>5, <1>6, <1>7, <1>8

\* What dev has locked is not upstream.
LEMMA LockScanned ==
  ASSUME BeforeRetention(dev)  PROVE dev.lock # NoLock /\ dev.lock \cap Upstream = {}
<1>1. dev.lock # NoLock /\ ScanDependencyClosure(dev) = {}
  BY DEF BeforeRetention, SyncFrozen, NoInfraEdge
<1>2. dev.lock \cap Upstream = {}
  <2> SUFFICES ASSUME NEW d \in dev.lock, d \in Upstream  PROVE FALSE
    OBVIOUS
  <2>1. Canonical(d) \in LockedNames(dev.lock)
    BY <1>1 DEF LockedNames
  <2> QED  BY <1>1, <2>1 DEF ScanDependencyClosure
<1> QED  BY <1>1, <1>2

\* What is released has the lock file of dev beside it, and the index only grows.
LEMMA IndexIInv ==
  ASSUME IInv, Publish \/ IndexGains
  PROVE  IInv'
<1> USE DEF IInv
<1>1. UNCHANGED <<proposal, dev, pr, merges, day, headDay, notified>> /\ index \subseteq index'
  BY DEF Publish, IndexGains
<1>2. TypeInv'
  BY <1>1 DEF TypeInv, WellFormed
<1>3. GreenInv'
  BY <1>1 DEF GreenInv, AfterRetention, BeforeRetention, WheelInstalls
<1>4. ReviewedInv'
  BY <1>1 DEF ReviewedInv
<1>5. NoticeInv'
  BY <1>1 DEF NoticeInv
<1>6. PublishedInv'
  <2>1. CASE Publish
    <3>1. PICK w : w = [pins |-> WheelPins(dev), lock |-> dev.lock]
      OBVIOUS
    <3>2. published' = published \cup {w}
      BY <2>1, <3>1 DEF Publish
    <3>3. w.lock \cap Upstream = {}
      BY <3>1, LockScanned DEF GreenInv
    <3> QED  BY <3>2, <3>3 DEF PublishedInv
  <2>2. CASE IndexGains
    BY <2>2 DEF PublishedInv, IndexGains
  <2> QED  BY <2>1, <2>2
<1> QED  BY <1>2, <1>3, <1>4, <1>5, <1>6

\* Every reachable state satisfies the invariant: dev passes every check of its content, what
\* the merge group skips was looked at before, and every date that has come was announced.
THEOREM GreenBranch == Spec => []IInv
<1>1. IInv /\ [Next]_vars => IInv'
  <2> SUFFICES ASSUME IInv, [Next]_vars  PROVE IInv'
    OBVIOUS
  <2>1. CASE UNCHANGED vars
    BY <2>1 DEF vars, IInv, TypeInv, WellFormed, GreenInv, BeforeRetention, AfterRetention,
                WheelInstalls, ReviewedInv, NoticeInv, PublishedInv
  <2>2. CASE \E p \in PRs : OpenOrPush(p)
    BY <2>2, OpenOrPushIInv
  <2>3. CASE \E p \in PRs : Merge(p)
    BY <2>3, MergeIInv
  <2>4. CASE NextDay
    BY <2>4, NextDayIInv
  <2>5. CASE Publish \/ IndexGains
    BY <2>5, IndexIInv
  <2> QED  BY <2>1, <2>2, <2>3, <2>4, <2>5 DEF Next
<1> QED  BY InitIInv, <1>1, PTL DEF Spec
-----------------------------------------------------------------------------
(* What Closure computes *)

\* A set of numbers with 0 and with every successor is Nat: induction, over a set.
LEMMA NatSetInduction ==
  ASSUME NEW S \in SUBSET Nat, 0 \in S, \A n \in S : n + 1 \in S
  PROVE  S = Nat
<1> DEFINE R == {p \in Nat \X Nat : p[1] < p[2]}
           T == Nat \ S
<1>1. IsWellFoundedOn(R, Nat)
  <2>1. R = OpToRel(<, Nat)
    BY DEF OpToRel
  <2> QED  BY <2>1, NatLessThanWellFounded
<1>2. SUFFICES ASSUME T # {}  PROVE FALSE
  OBVIOUS
<1>3. PICK x \in T : \A y \in T : ~(<<y, x>> \in R)
  <2>1. T \subseteq Nat
    OBVIOUS
  <2> HIDE DEF T, R
  <2> QED  BY <1>1, <1>2, <2>1, WFMin
<1>4. x # 0 /\ x - 1 \in Nat /\ x - 1 \notin S
  BY <1>3
<1>5. <<x - 1, x>> \in R
  BY <1>4, <1>3
<1> QED  BY <1>3, <1>4, <1>5

\* What the distributions of D name, and one round of following it.
Named(D) == UNION {Requires[d] : d \in D}
Round(D) == D \cup Named(D)
Closed(D) == Named(D) \subseteq D

\* f follows the requirements of S for n rounds.
Follows(f, S, n) ==
  /\ f \in [0..n -> SUBSET Dists] /\ f[0] = S
  /\ \A k \in 0..n : k # 0 => f[k] = Round(f[k - 1])

LEMMA RoundTyped ==
  ASSUME NEW D \in SUBSET Dists
  PROVE  Round(D) \in SUBSET Dists
BY DistsAssumption DEF Round, Named

LEMMA FollowsExists ==
  ASSUME NEW S \in SUBSET Dists
  PROVE  \A n \in Nat : \E f : Follows(f, S, n)
<1> DEFINE N == {n \in Nat : \E f : Follows(f, S, n)}
<1>1. 0 \in N
  <2> DEFINE f == [k \in 0..0 |-> S]
  <2>1. f \in [0..0 -> SUBSET Dists] /\ f[0] = S /\ \A k \in 0..0 : k = 0
    OBVIOUS
  <2>2. Follows(f, S, 0)
    BY <2>1 DEF Follows
  <2> QED  BY <2>2
<1>2. ASSUME NEW n \in N  PROVE n + 1 \in N
  <2>1. PICK f : Follows(f, S, n)
    OBVIOUS
  <2>2. n \in Nat /\ f[n] \in SUBSET Dists
    BY <2>1 DEF Follows
  <2>3. PICK last \in SUBSET Dists : last = Round(f[n])
    BY <2>2, RoundTyped
  <2> DEFINE g == [k \in 0..(n + 1) |-> IF k = n + 1 THEN last ELSE f[k]]
  <2>4. g \in [0..(n + 1) -> SUBSET Dists]
    BY <2>1, <2>2 DEF Follows
  <2>5. g[0] = S
    BY <2>1, <2>2 DEF Follows
  <2>6. ASSUME NEW k \in 0..(n + 1), k # 0  PROVE g[k] = Round(g[k - 1])
    <3>1. g[k - 1] = f[k - 1] /\ k - 1 \in 0..n
      BY <2>2, <2>6
    <3>2. CASE k = n + 1
      BY <2>2, <2>3, <3>1, <3>2
    <3>3. CASE k # n + 1
      <4>1. k \in 0..n /\ g[k] = f[k]
        BY <2>2, <3>3
      <4> HIDE DEF g
      <4> QED  BY <2>1, <2>6, <3>1, <4>1 DEF Follows
    <3> QED  BY <3>2, <3>3
  <2>7. Follows(g, S, n + 1)
    <3> HIDE DEF g
    <3> QED  BY <2>4, <2>5, <2>6 DEF Follows
  <2> QED  BY <2>2, <2>7
<1>3. N = Nat
  <2> N \in SUBSET Nat
    OBVIOUS
  <2> HIDE DEF N
  <2> QED  BY <1>1, <1>2, NatSetInduction
<1> QED  BY <1>3

\* Two of them agree as far as both go.
LEMMA FollowsAgree ==
  ASSUME NEW S \in SUBSET Dists, NEW m \in Nat, NEW n \in Nat, m <= n,
         NEW f, Follows(f, S, m), NEW g, Follows(g, S, n)
  PROVE  f[m] = g[m]
<1> DEFINE N == {k \in Nat : k <= m => f[k] = g[k]}
<1>1. 0 \in N
  BY DEF Follows
<1>2. ASSUME NEW k \in N  PROVE k + 1 \in N
  <2> SUFFICES ASSUME k + 1 <= m  PROVE f[k + 1] = g[k + 1]
    OBVIOUS
  <2>1. f[k] = g[k]
    OBVIOUS
  <2>2. k + 1 \in 0..m /\ k + 1 \in 0..n /\ k + 1 # 0 /\ (k + 1) - 1 = k
    OBVIOUS
  <2>3. f[k + 1] = Round(f[k])
    BY <2>2 DEF Follows
  <2>4. g[k + 1] = Round(g[k])
    BY <2>2 DEF Follows
  <2> QED  BY <2>1, <2>3, <2>4
<1>3. N = Nat
  <2> N \in SUBSET Nat
    OBVIOUS
  <2> HIDE DEF N
  <2> QED  BY <1>1, <1>2, NatSetInduction
<1> QED  BY <1>3

\* The function that Closure iterates exists ...
Reaches(r, S) ==
  r = [n \in Nat |-> IF n = 0 THEN S ELSE r[n - 1] \cup UNION {Requires[d] : d \in r[n - 1]}]

LEMMA ReachExists ==
  ASSUME NEW S \in SUBSET Dists
  PROVE  \E r : Reaches(r, S)
<1> DEFINE upto(n) == CHOOSE f : Follows(f, S, n)
           r == [n \in Nat |-> upto(n)[n]]
<1>1. ASSUME NEW n \in Nat  PROVE Follows(upto(n), S, n)
  BY FollowsExists
<1> HIDE DEF upto
<1>2. ASSUME NEW n \in Nat  
      PROVE  r[n] = IF n = 0 THEN S ELSE r[n - 1] \cup UNION {Requires[d] : d \in r[n - 1]}
  <2>1. CASE n = 0
    <3>1. upto(0)[0] = S
      BY <1>1 DEF Follows
    <3> QED  BY <2>1, <3>1
  <2>2. CASE n # 0
    <3>1. n - 1 \in Nat /\ n - 1 <= n /\ n \in 0..n
      BY <2>2
    <3>2. upto(n)[n] = Round(upto(n)[n - 1])
      BY <1>1, <2>2, <3>1 DEF Follows
    <3>3. upto(n - 1)[n - 1] = upto(n)[n - 1]
      BY <1>1, <3>1, FollowsAgree
    <3>4. r[n] = upto(n)[n] /\ r[n - 1] = upto(n - 1)[n - 1]
      BY <3>1
    <3>5. r[n] = Round(r[n - 1])
      BY <3>2, <3>3, <3>4
    <3> HIDE DEF r
    <3> QED  BY <2>2, <3>5 DEF Round, Named
  <2> QED  BY <2>1, <2>2
<1>3. r = [n \in Nat |-> r[n]]
  OBVIOUS
<1>4. Reaches(r, S)
  <2> HIDE DEF r
  <2> QED  BY <1>2, <1>3 DEF Reaches
<1> QED  BY <1>4

\* ... so Closure follows the requirements for as many rounds as there are distributions.
LEMMA ClosureReaches ==
  ASSUME NEW S \in SUBSET Dists
  PROVE  \E r : /\ Closure(S) = r[Cardinality(Dists)]
                /\ r[0] = S
                /\ \A n \in Nat : r[n + 1] = Round(r[n])
<1> DEFINE r == CHOOSE f : Reaches(f, S)
<1>1. Reaches(r, S)
  BY ReachExists
<1>2. Closure(S) = r[Cardinality(Dists)]
  BY DEF Closure, Reaches
<1> HIDE DEF r
<1>3. r[0] = S
  BY <1>1 DEF Reaches
<1>4. ASSUME NEW n \in Nat  PROVE r[n + 1] = Round(r[n])
  <2>1. n + 1 \in Nat /\ n + 1 # 0 /\ (n + 1) - 1 = n
    OBVIOUS
  <2> QED  BY <1>1, <2>1 DEF Reaches, Round, Named
<1> QED  BY <1>2, <1>3, <1>4

\* What installing S brings along, for any relation of requirements, cycles included: S, all that is named on the way, and nothing else.
THEOREM ClosureIsLeast ==
  ASSUME NEW S \in SUBSET Dists
  PROVE  /\ S \subseteq Closure(S) /\ Closure(S) \in SUBSET Dists /\ Closed(Closure(S))
         /\ \A T : S \subseteq T /\ Closed(T) => Closure(S) \subseteq T
<1>1. PICK r : /\ Closure(S) = r[Cardinality(Dists)]
               /\ r[0] = S
               /\ \A n \in Nat : r[n + 1] = Round(r[n])
  BY ClosureReaches
<1>2. Cardinality(Dists) \in Nat
  BY DistsAssumption, FS_CardinalityType
<1>3. \A n \in Nat : r[n] \in SUBSET Dists /\ S \subseteq r[n]
  <2> DEFINE N == {n \in Nat : r[n] \in SUBSET Dists /\ S \subseteq r[n]}
  <2>1. 0 \in N
    BY <1>1
  <2>2. ASSUME NEW n \in N  PROVE n + 1 \in N
    <3>1. r[n + 1] = Round(r[n])
      BY <1>1
    <3>2. r[n] \in SUBSET Dists /\ S \subseteq r[n]
      OBVIOUS
    <3>3. Round(r[n]) \in SUBSET Dists
      BY <3>2, RoundTyped
    <3> QED  BY <3>1, <3>2, <3>3 DEF Round
  <2>3. N = Nat
    <3> N \in SUBSET Nat
      OBVIOUS
    <3> HIDE DEF N
    <3> QED  BY <2>1, <2>2, NatSetInduction
  <2> QED  BY <2>3
<1>4. \A n \in Nat : Closed(r[n]) \/ Cardinality(r[n]) >= n
  <2> DEFINE N == {n \in Nat : Closed(r[n]) \/ Cardinality(r[n]) >= n}
  <2>1. ASSUME NEW n \in Nat  PROVE IsFiniteSet(r[n]) /\ Cardinality(r[n]) \in Nat
    <3>1. r[n] \in SUBSET Dists
      BY <1>3
    <3>2. IsFiniteSet(r[n])
      BY <3>1, DistsAssumption, FS_Subset
    <3> QED  BY <3>2, FS_CardinalityType
  <2>2. 0 \in N
    BY <2>1
  <2>3. ASSUME NEW n \in N  PROVE n + 1 \in N
    <3>1. n \in Nat /\ n + 1 \in Nat /\ r[n + 1] = Round(r[n]) /\ (Closed(r[n]) \/ Cardinality(r[n]) >= n)
      BY <1>1
    <3>2. CASE Closed(r[n])
      <4>1. Round(r[n]) = r[n]
        BY <3>2 DEF Closed, Round
      <4> QED  BY <3>1, <3>2, <4>1
    <3>3. CASE ~Closed(r[n])
      <4>1. r[n] \in SUBSET r[n + 1] /\ r[n] # r[n + 1]
        BY <3>1, <3>3 DEF Closed, Round
      <4>2. /\ Cardinality(r[n]) <= Cardinality(r[n + 1])
            /\ Cardinality(r[n]) # Cardinality(r[n + 1])
        BY <2>1, <3>1, <4>1, FS_Subset
      <4>3. Cardinality(r[n]) \in Nat /\ Cardinality(r[n + 1]) \in Nat
        BY <2>1, <3>1
      <4>4. Cardinality(r[n + 1]) >= n + 1
        BY <3>1, <3>3, <4>2, <4>3
      <4> QED  BY <3>1, <4>4
    <3> QED  BY <3>2, <3>3
  <2>4. N = Nat
    <3> N \in SUBSET Nat
      OBVIOUS
    <3> HIDE DEF N
    <3> QED  BY <2>2, <2>3, NatSetInduction
  <2> QED  BY <2>4
<1>5. Closed(Closure(S))
  <2>1. Closure(S) \in SUBSET Dists
    BY <1>1, <1>2, <1>3
  <2>2. CASE Cardinality(Closure(S)) >= Cardinality(Dists)
    <3>1. Cardinality(Closure(S)) = Cardinality(Dists)
      <4>1. /\ IsFiniteSet(Closure(S)) /\ Cardinality(Closure(S)) <= Cardinality(Dists)
        BY <2>1, DistsAssumption, FS_Subset
      <4>2. Cardinality(Closure(S)) \in Nat
        BY <4>1, FS_CardinalityType
      <4> QED  BY <1>2, <2>2, <4>1, <4>2
    <3>2. Closure(S) = Dists
      BY <2>1, <3>1, DistsAssumption, FS_Subset
    <3> QED  BY <3>2, DistsAssumption DEF Closed, Named
  <2> QED  BY <1>1, <1>2, <1>4, <2>2
<1>6. ASSUME NEW T, S \subseteq T, Closed(T)  PROVE Closure(S) \subseteq T
  <2> DEFINE N == {n \in Nat : r[n] \subseteq T}
  <2>1. 0 \in N
    BY <1>1, <1>6
  <2>2. ASSUME NEW n \in N  PROVE n + 1 \in N
    <3>1. r[n + 1] = Round(r[n]) /\ r[n] \subseteq T
      BY <1>1
    <3>2. Round(r[n]) \subseteq T
      BY <1>6, <3>1 DEF Closed, Round, Named
    <3> QED  BY <3>1, <3>2
  <2>3. N = Nat
    <3> N \in SUBSET Nat
      OBVIOUS
    <3> HIDE DEF N
    <3> QED  BY <2>1, <2>2, NatSetInduction
  <2> QED  BY <1>1, <1>2, <2>3
<1> QED  BY <1>1, <1>2, <1>3, <1>5, <1>6

-----------------------------------------------------------------------------
(* What the gates establish on dev *)

\* Whatever is declared, locked and imported together has passed all of the checks at once, and
\* a lock file that is closed under requirements has the whole closure.
LEMMA ClosureCleanOfIInv == IInv => DevClosureClean
<1> SUFFICES ASSUME IInv, LockCovers(dev)  PROVE ~UpstreamReached(dev)
  BY DEF DevClosureClean
<1>1. BeforeRetention(dev)
  BY DEF IInv, GreenInv
<1>2. PICK S \in SUBSET Dists : S = {r.dist : r \in dev.declared}
  BY DeclaredKnown DEF IInv
<1>3. S \subseteq dev.lock /\ Closed(dev.lock)
  BY <1>2 DEF LockCovers, Closed, Named
<1>4. Closure(S) \subseteq dev.lock
  BY <1>3, ClosureIsLeast
<1>5. ~\E i \in dev.imports : i.head = "upstream" /\ i.stmt \in {"import", "from"}
  BY <1>1 DEF BeforeRetention, NoUpstreamImport, UpstreamImports
<1> QED  BY <1>1, <1>2, <1>4, <1>5, LockScanned DEF UpstreamReached

\* No upstream package is imported, or reached by any chain of requirements from what dev
\* declares, while uv.lock has all that is declared and required, however stale it is.
THEOREM ClosureClean == Spec => []DevClosureClean
<1> QED  BY ClosureCleanOfIInv, GreenBranch, PTL

\* The merge group skips the provenance check, and still no table of sources that takes a
\* first-party distribution from git gets to dev, in the form and spellings the check reads.
THEOREM NoGitOverride == Spec => []NoGitOverrideOnDev
<1>1. IInv => NoGitOverrideOnDev
  <2> SUFFICES ASSUME IInv, NEW e \in UnexcusedOverrides(dev.sources),
                      e.form = "inline", e.sep # "."
               PROVE  FALSE
    BY DEF NoGitOverrideOnDev
  <2>1. /\ e \in dev.sources /\ e.dist \in FirstParty
        /\ e.keys \cap GitKeys # {} /\ e.note # "ticket"
    BY DEF UnexcusedOverrides
  <2>2. e.sep \in {"-", "_", "."}
    BY <2>1 DEF IInv, TypeInv, WellFormed, Surfaces, PyprojectSurfaces
  <2>3. Normalize(e) = Canonical(e.dist)
    BY <2>2 DEF Normalize, Canonical
  <2>4. e \in FindViolations(dev.sources)
    BY <2>1, <2>3 DEF FindViolations, ParsedKeys, Escaped
  <2> QED  BY <2>4 DEF IInv, GreenInv, ProvenanceClean
<1> QED  BY <1>1, GreenBranch, PTL

\* One revision of the shared validator on dev, in however many places it is pinned.
THEOREM PinsAgree == Spec => []DevPinsAgree
<1>1. IInv => DevPinsAgree
  BY DEF IInv, GreenInv, ParityGate, PinParityGate, CIPins, DevPinsAgree
<1> QED  BY <1>1, GreenBranch, PTL

\* The merge group checks the hook together with the script it will run, so on dev no hook's
\* script goes green within Window lines of a missing prerequisite.
THEOREM HooksFailLoud == Spec => []DevHooksFailLoud
<1>1. IInv => DevHooksFailLoud
  <2> SUFFICES ASSUME IInv, NEW h \in dev.hooks, h.language \in {"system", "script"},
                      h.runs # <<>>,
                      NEW i \in DOMAIN dev.scripts[Head(h.runs)],
                      NEW j \in DOMAIN dev.scripts[Head(h.runs)],
                      i <= j, j - i <= Window,
                      "notfound" \in dev.scripts[Head(h.runs)][i],
                      "exit0" \in dev.scripts[Head(h.runs)][j],
                      "ok" \notin dev.scripts[Head(h.runs)][i] \cup dev.scripts[Head(h.runs)][j]
               PROVE  FALSE
    BY DEF DevHooksFailLoud
  <2> DEFINE text == dev.scripts[Head(h.runs)]
  <2>1. /\ \A k \in dev.hooks : k.runs \in Seq(DOMAIN InitialDev.scripts)
        /\ dev.scripts \in [DOMAIN InitialDev.scripts -> Seq(SUBSET STRING)]
    BY DEF IInv, TypeInv, WellFormed, Surfaces, PyprojectSurfaces
  <2>2. Head(h.runs) \in DOMAIN InitialDev.scripts
    BY <2>1
  <2>3. text \in Seq(SUBSET STRING)
    BY <2>1, <2>2
  <2>4. ScanText(text) = {}
    BY DEF IInv, GreenInv, ParityGate, FailLoudGate, CheckFailLoud
  <2> HIDE DEF text
  <2>5. i \in DOMAIN text /\ j \in DOMAIN text /\ "notfound" \in text[i] /\ "exit0" \in text[j]
        /\ "ok" \notin text[i] /\ "ok" \notin text[j]
    BY DEF text
  <2>6. i \in 1..Len(text) /\ j \in 1..Len(text)
    BY <2>3, <2>5
  <2> DEFINE from == IF j > Window THEN j - Window ELSE 1
  <2>7. i \in from..j
    BY <2>6, WindowAssumption
  <2> HIDE DEF from
  <2>8. Marked(text, from, j, "notfound")
    BY <2>5, <2>7 DEF Marked
  <2>9. FalseGreen(text, j)
    BY <2>5, <2>8 DEF FalseGreen, from
  <2> QED  BY <2>4, <2>5, <2>9 DEF ScanText
<1> QED  BY <1>1, GreenBranch, PTL

\* Only the calendar makes validate fail on dev, and never without notice.
THEOREM NoFailureWithoutNotice == Spec => []NoticeBeforeFailure
<1>1. IInv => NoticeBeforeFailure
  <2> SUFFICES ASSUME IInv, NEW f \in Violations(dev, headDay, day), dev[f].date # NoDate
               PROVE  <<f, dev[f].date>> \in notified
    BY DEF IInv, GreenInv, NoticeBeforeFailure
  <2>1. f \in Files /\ Scanned(dev[f]) /\ dev[f].date < day
    BY DEF Violations, Violated
  <2>2. dev[f].date \in Nat /\ day \in Nat
    BY <2>1 DEF IInv, TypeInv, WellFormed, Surfaces
  <2> QED  BY <2>1, <2>2 DEF IInv, NoticeInv
<1> QED  BY <1>1, GreenBranch, PTL

\* A released wheel reaches no upstream distribution but through one its lock file lacked,
\* whatever dev and the index became since.
THEOREM ReleasesClean == Spec => []ReleasesReachNoUpstream
<1>1. IInv => ReleasesReachNoUpstream
  BY DEF IInv, PublishedInv, ReleasesReachNoUpstream
<1> QED  BY <1>1, GreenBranch, PTL

-----------------------------------------------------------------------------
(* What the full suite collects *)

LEMMA PrefixTransitive ==
  ASSUME NEW r \in Seq(STRING), NEW s \in Seq(STRING), NEW t \in Seq(STRING),
         IsPrefix(r, s), IsPrefix(s, t)
  PROVE  IsPrefix(r, t)
<1>1. Len(r) <= Len(s) /\ Len(s) <= Len(t) /\ Len(r) \in Nat /\ Len(s) \in Nat /\ Len(t) \in Nat
  BY DEF IsPrefix
<1>2. \A k \in 1..Len(r) : r[k] = s[k]
  BY <1>1 DEF IsPrefix
<1>3. \A k \in 1..Len(s) : s[k] = t[k]
  BY <1>1 DEF IsPrefix
<1>4. SubSeq(r, 1, Len(r)) = SubSeq(t, 1, Len(r))
  BY <1>1, <1>2, <1>3
<1> QED  BY <1>1, <1>4 DEF IsPrefix

\* In a step that pytest accepts, a reader who knows one option more finds no further path:
\* the word that only he takes for a path would have to follow an option and be its value.
LEMMA ReadableStep ==
  ASSUME NEW repo, repo.step \in Seq(STRING), StepIsReadable(repo),
         PositionalPytestArgs(repo.step) = {}
  PROVE  Positionals(repo.step, Valued) = {}
<1> DEFINE words == repo.step
<1> SUFFICES ASSUME NEW i \in AfterPytest(words), words[i] \notin Options,
                    ~IsValue(words, Valued, i)
             PROVE  FALSE
  BY DEF Positionals
<1>0. Listed \subseteq Valued /\ Valued \subseteq Options /\ "pytest" \notin Valued
  BY DEF Listed, Valued, Options
<1>1. IsValue(words, Listed, i)
  BY DEF PositionalPytestArgs, Positionals
<1>2. PICK j \in AfterPytest(words) : j < i /\ \A k \in j..(i - 1) : words[k] \in Listed
  BY <1>1 DEF IsValue
<1>3. /\ words \in Seq(STRING) /\ i \in 1..Len(words) /\ j \in 1..Len(words)
      /\ \E k \in 1..(j - 1) : words[k] = "pytest"
  BY DEF AfterPytest
<1>4. /\ \A k \in 1..Len(words) : words[k] \in Valued => words[k + 1] \notin Options
  BY <1>3 DEF StepIsReadable
<1> HIDE DEF words
<1>5. PICK at \in 1..(j - 1) : words[at] = "pytest"
  BY <1>3
<1>6. words[i - 1] \in Valued /\ words[(i - 2) + 1] \in Options
  BY <1>0, <1>2, <1>3
<1>7. words[i - 2] \notin Valued
  <2>1. at \in 1..(i - 2)
    BY <1>2, <1>3, <1>5
  <2>2. i - 2 \in 1..Len(words)
    BY <1>3, <2>1
  <2> QED  BY <1>4, <1>6, <2>2
<1>8. i - 1 \in AfterPytest(words)
  <2>1. CASE at = i - 1
    BY <1>0, <1>5, <1>6, <2>1
  <2>2. CASE at # i - 1
    <3>1. at \in 1..((i - 1) - 1) /\ i - 1 \in 1..Len(words)
      BY <1>2, <1>3, <1>5, <2>2
    <3>2. i - 1 \in DOMAIN words
      BY <1>3, <3>1
    <3>3. \E k \in 1..((i - 1) - 1) : words[k] = "pytest"
      BY <1>5, <3>1
    <3> QED  BY <3>2, <3>3 DEF AfterPytest
  <2> QED  BY <2>1, <2>2
<1>9. IsValue(words, Valued, i)
  <2>1. i - 1 < i /\ (i - (i - 1)) % 2 = 1 /\ (i - 1) - 1 = i - 2
    BY <1>3
  <2>2. \A k \in (i - 1)..(i - 1) : words[k] \in Valued
    BY <1>3, <1>6
  <2> QED  BY <1>7, <1>8, <2>1, <2>2 DEF IsValue
<1> QED  BY <1>9 DEF words

\* What lies below a root, in directories that pytest enters, is found from that root.
LEMMA RootFinds ==
  ASSUME NEW roots, NEW root \in roots, NEW f \in Seq(STRING), IsPrefix(root, f),
         ToSet(f) \cap NotEntered = {}
  PROVE  Finds(roots, f)
<1>1. \A i \in DOMAIN f : f[i] \notin NotEntered
  BY DEF ToSet
<1> QED  BY <1>1 DEF Finds

\* A test directory, the roots that reach it and the step that runs them may come from three
\* pull requests, and the step may leave tests out: what the full suite of dev misses is what
\* the step names and what lies where pytest does not go, and nothing else.
THEOREM OnlyExcludedMissed == Spec => []DevMissesOnlyExcluded
<1>1. IInv => DevMissesOnlyExcluded
  <2> SUFFICES ASSUME IInv, StepIsReadable(dev), NEW f \in dev.testFiles,
                      Below(FindTestDirs(dev.testFiles), f),
                      ~Below(LeftOut(dev.step), f), ToSet(f) \cap NotEntered = {}
               PROVE  f \in Collected(dev)
    BY DEF DevMissesOnlyExcluded, MissesOnlyExcluded
  <2>1. TestRootsSound(dev)
    BY DEF IInv, GreenInv, AfterRetention
  <2>2. /\ dev.testpaths \subseteq Seq(STRING) /\ dev.testFiles \subseteq Seq(STRING)
        /\ dev.step \in Seq(STRING)
    BY DEF IInv, TypeInv, WellFormed, Surfaces, PyprojectSurfaces, StepIsReadable
  <2>3. Positionals(dev.step, Valued) = {}
    BY <2>1, <2>2, ReadableStep DEF TestRootsSound, CheckFullSuiteInvocation
  <2>4. PICK dir \in FindTestDirs(dev.testFiles) : IsPrefix(dir, f)
    BY DEF Below
  <2>5. PICK root \in dev.testpaths : IsPrefix(root, dir)
    BY <2>1 DEF TestRootsSound, CheckUncollectedRoots
  <2>6. dir \in Seq(STRING)
    <3>1. PICK g \in dev.testFiles : dir \in Prefixes(g)
      BY DEF FindTestDirs
    <3>2. PICK n \in 0..Len(g) : dir = SubSeq(g, 1, n)
      BY <3>1 DEF Prefixes
    <3>3. g \in Seq(STRING) /\ Len(g) \in Nat
      BY <2>2
    <3>4. \A k \in 1..n : g[k] \in STRING
      BY <3>3
    <3> QED  BY <3>2, <3>3, <3>4
  <2>7. IsPrefix(root, f)
    BY <2>2, <2>4, <2>5, <2>6, PrefixTransitive
  <2>8. Finds(dev.testpaths, f)
    BY <2>2, <2>7, RootFinds
  <2> QED  BY <2>3, <2>8 DEF Collected
<1> QED  BY <1>1, GreenBranch, PTL
====================================================================================
