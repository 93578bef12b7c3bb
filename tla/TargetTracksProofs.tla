------------------------- MODULE TargetTracksProofs -------------------------
(***************************************************************************)
(* Proofs about OfflineTracker and TargetSelector, for any observations,   *)
(* gates and thresholds: the association is a maximum-cardinality matching *)
(* (OwnersAreMost), and TracksInv, what tracks and selector state satisfy  *)
(* after every frame, whatever its clock.                                  *)
(*                                                                         *)
(* The argument for the matching.  A set T of tracks is Closed when every  *)
(* observation that is feasible for one of T belongs to one of T.  A call  *)
(* of augment that fails leaves a closed set with its track (Barren), one  *)
(* that succeeds keeps every closed set (Keeps), so that after the last    *)
(* track a closed set holds all the tracks that have nothing; and no       *)
(* matching gives the tracks of a closed set more observations than there  *)
(* are.  augment and owners are recursive functions: that they are defined *)
(* by their equations is proved by induction over a set (SetInduction),    *)
(* and what a call does by the observations it may still see (GoodTo).     *)
(***************************************************************************)
EXTENDS TargetTracks, FiniteSetTheorems, WellFoundedInduction, TLAPS

-----------------------------------------------------------------------------
(* Numbers, sequences and recursion.                                       *)


\* A set of naturals has a least element.
LEMMA LeastExists ==
  ASSUME NEW S \in SUBSET Nat, S # {}
  PROVE  \E x \in S : \A y \in S : x <= y
<1> DEFINE R == {p \in Nat \X Nat : p[1] < p[2]}
<1>1. OpToRel(<, Nat) = R
  BY Zenon DEF OpToRel
<1>2. IsWellFoundedOn(R, Nat)
  BY <1>1, NatLessThanWellFounded, Zenon
<1> HIDE DEF R
<1>3. PICK x \in S : \A y \in S : <<y, x>> \notin R
  BY <1>2, WFMin, Zenon
<1>4. ASSUME NEW y \in S PROVE x <= y
  <2>1. <<y, x>> \in R <=> y < x
    BY SMT DEF R
  <2> QED
    BY <2>1, <1>3
<1> QED
  BY <1>4

\* Induction, for a set.
LEMMA SetInduction ==
  ASSUME NEW S \in SUBSET Nat, 0 \in S, \A n \in S : n + 1 \in S
  PROVE  S = Nat
<1> SUFFICES ASSUME Nat \ S # {} PROVE FALSE
  OBVIOUS
<1>1. PICK n \in Nat \ S : \A m \in Nat \ S : n <= m
  BY LeastExists
<1>2. n - 1 \in S
  BY <1>1
<1> QED
  BY <1>1, <1>2

\* A function on 1 .. n is a sequence.
LEMMA FunctionIsSequence ==
  ASSUME NEW S, NEW n \in Nat, NEW f \in [1 .. n -> S]
  PROVE  f \in Seq(S) /\ Len(f) = n /\ DOMAIN f = 1 .. n
OBVIOUS

\* f is what n steps compute, each from the one before.
Iterates(n, V, base, step, f) ==
  /\ f \in [0 .. n -> V]
  /\ f[0] = base /\ \A k \in 1 .. n : f[k] = step[k][f[k - 1]]

\* n steps can be computed, each from the one before.
LEMMA IteratesExist ==
  ASSUME NEW N \in Nat, NEW V, NEW base \in V, NEW step \in [1 .. N -> [V -> V]]
  PROVE  \E f : Iterates(N, V, base, step, f)
<1> DEFINE S == {n \in Nat : n <= N => \E f : Iterates(n, V, base, step, f)}
<1>1. 0 \in S
  <2>1. Iterates(0, V, base, step, [k \in 0 .. 0 |-> base])
    BY DEF Iterates
  <2> QED
    BY <2>1
<1>2. ASSUME NEW n \in S PROVE n + 1 \in S
  <2> SUFFICES ASSUME n + 1 <= N PROVE \E f : Iterates(n + 1, V, base, step, f)
    OBVIOUS
  <2>1. PICK f : Iterates(n, V, base, step, f)
    OBVIOUS
  <2> DEFINE g == [k \in 0 .. n + 1 |-> IF k <= n THEN f[k] ELSE step[k][f[n]]]
  <2>2. step[n + 1] \in [V -> V] /\ f[n] \in V
    BY <2>1 DEF Iterates
  <2>3. g \in [0 .. n + 1 -> V]
    BY <2>1, <2>2 DEF Iterates
  <2>4. g[0] = base /\ \A k \in 1 .. n + 1 : g[k] = step[k][g[k - 1]]
    BY <2>1 DEF Iterates
  <2> HIDE DEF g
  <2>5. Iterates(n + 1, V, base, step, g)
    BY <2>3, <2>4 DEF Iterates
  <2> QED
    BY <2>5
<1>3. S = Nat
  <2> HIDE DEF S
  <2>1. S \in SUBSET Nat
    BY DEF S
  <2> QED
    BY <1>1, <1>2, <2>1, SetInduction
<1>4. N \in S
  <2> HIDE DEF S
  <2> QED
    BY <1>3
<1>5. N <= N
  OBVIOUS
<1> QED
  BY <1>4, <1>5, Zenon

-----------------------------------------------------------------------------
(* One search.                                                             *)

\* What an observation and a track are, of any size.
Sizes == [class : Nat, pos : Nat, conf : Nat]

Track ==
  [class : Nat, pos : Nat, state : {"DETECTING", "TRACKING", "TEMP_LOST"},
   count : 0 .. MinDetect, age : Nat, streak : 0 .. MinDetect,
   chosen : BOOLEAN, wins : Nat, onTop : 0 .. DebounceFrames, was : BOOLEAN]

\* A distance is a natural number.
LEMMA DistanceNat ==
  ASSUME NEW a \in Nat, NEW b \in Nat
  PROVE  Distance(a, b) \in Nat
BY DEF Distance

\* The nearest observation is one of those that are open to the track.
LEMMA NearestIsOpen ==
  ASSUME NEW t \in Track, NEW open \in SUBSET Sizes, open # {}
  PROVE  Nearest(t, open) \in open
<1> DEFINE far(o) == Distance(t.pos, o.pos)
<1>1. \A o \in open : far(o) \in Nat /\ o.pos \in Nat
  BY DistanceNat DEF Track, Sizes
<1> HIDE DEF far
<1>2. PICK d \in {far(o) : o \in open} : \A e \in {far(o) : o \in open} : d <= e
  <2>1. {far(o) : o \in open} \in SUBSET Nat /\ {far(o) : o \in open} # {}
    BY <1>1
  <2> QED
    BY <2>1, LeastExists
<1> DEFINE best == {o \in open : far(o) = d}
<1>3. PICK x \in {o.pos : o \in best} : \A y \in {o.pos : o \in best} : x <= y
  <2>1. {o.pos : o \in best} \in SUBSET Nat /\ {o.pos : o \in best} # {}
    BY <1>1
  <2> QED
    BY <2>1, LeastExists
<1>4. PICK o \in best : o.pos = x
  OBVIOUS
<1>5. \A p \in open : far(o) < far(p) \/ (far(o) = far(p) /\ o.pos <= p.pos)
  <2> TAKE p \in open
  <2>1. far(o) = d /\ d <= far(p) /\ d \in Nat /\ far(p) \in Nat
    BY <1>1, <1>2
  <2>2. far(p) = d => x <= p.pos
    BY <1>3
  <2> QED
    BY <1>4, <2>1, <2>2
<1>6. \E q \in open : \A p \in open :
         far(q) < far(p) \/ (far(q) = far(p) /\ q.pos <= p.pos)
  BY <1>5
<1> QED
  BY <1>6 DEF Nearest, far

\* What the calls of augment return, by track and search.
Calls(ts, obs) == [DOMAIN ts -> [Searches(ts, obs) -> Searches(ts, obs)]]

\* What a call does once it has seen o, by cases.
Outcome(ts, j, r, deeper, o, s, res) ==
  \/ /\ r.owner[o] = 0
     /\ res = [seen |-> s.seen, owner |-> [r.owner EXCEPT ![o] = j]]
  \/ /\ r.owner[o] \in DOMAIN ts
     /\ deeper[r.owner[o]][s].owner # r.owner
     /\ res = [seen |-> deeper[r.owner[o]][s].seen,
               owner |-> [deeper[r.owner[o]][s].owner EXCEPT ![o] = j]]
  \/ /\ r.owner[o] \in DOMAIN ts
     /\ deeper[r.owner[o]][s].owner = r.owner
     /\ res = deeper[j][deeper[r.owner[o]][s]]

\* Giving o to track j changes one owner and nothing else.
LEMMA WithOwner ==
  ASSUME NEW ts, NEW obs, NEW s \in Searches(ts, obs), NEW o, NEW j
  PROVE  [s EXCEPT !.owner[o] = j] = [seen |-> s.seen, owner |-> [s.owner EXCEPT ![o] = j]]
<1>1. PICK seen, owner : s = [seen |-> seen, owner |-> owner]
  BY DEF Searches
<1>2. PICK next : next = [owner EXCEPT ![o] = j]
  OBVIOUS
<1>3. s.seen = seen /\ s.owner = owner
  BY <1>1
<1>4. [s EXCEPT !.owner[o] = j] = [s EXCEPT !.owner = next]
  BY <1>2, <1>3
<1>5. [s EXCEPT !.owner = next] = [seen |-> seen, owner |-> next]
  BY <1>1
<1> QED
  BY <1>2, <1>3, <1>4, <1>5

\* When o is taken, its track found another observation or did not.
LEMMA OutcomeTaken ==
  ASSUME NEW ts, NEW j, NEW r, NEW deeper, NEW o, NEW s, NEW res,
         Outcome(ts, j, r, deeper, o, s, res), r.owner[o] # 0,
         NEW a, a = deeper[r.owner[o]][s]
  PROVE  \/ /\ a.owner # r.owner
            /\ res = [seen |-> a.seen, owner |-> [a.owner EXCEPT ![o] = j]]
         \/ a.owner = r.owner /\ res = deeper[j][a]
BY Zenon DEF Outcome

\* A call that has an observation left tries one, with one of the outcomes.
LEMMA TryCases ==
  ASSUME NEW ts \in Seq(Track), NEW obs \in SUBSET Sizes, NEW j \in DOMAIN ts,
         NEW r \in Searches(ts, obs), NEW deeper \in Calls(ts, obs),
         {o \in obs \ r.seen : Feasible(ts[j], o)} # {}
  PROVE  \E o \in obs \ r.seen, s \in Searches(ts, obs) :
           /\ Feasible(ts[j], o)
           /\ s.seen = r.seen \cup {o} /\ s.owner = r.owner
           /\ Outcome(ts, j, r, deeper, o, s, Try(ts, obs, j, r, deeper))
<1> DEFINE open == {o \in obs \ r.seen : Feasible(ts[j], o)}
           o == Nearest(ts[j], open)
           s == [r EXCEPT !.seen = @ \cup {o}]
           a == deeper[r.owner[o]][s]
<1>1. o \in open
  <2>1. ts[j] \in Track /\ open \in SUBSET Sizes /\ open # {}
    OBVIOUS
  <2> HIDE DEF open
  <2> QED
    BY <2>1, NearestIsOpen
<1>2. Try(ts, obs, j, r, deeper) =
        IF r.owner[o] = 0 THEN [s EXCEPT !.owner[o] = j]
        ELSE IF a.owner # r.owner THEN [a EXCEPT !.owner[o] = j]
        ELSE deeper[j][a]
  BY DEF Try
<1> HIDE DEF o
<1>3. /\ s \in Searches(ts, obs) /\ s.seen = r.seen \cup {o} /\ s.owner = r.owner
      /\ o \in obs \ r.seen /\ Feasible(ts[j], o)
  BY <1>1 DEF Searches
<1>4. r.owner[o] \in 0 .. Len(ts) /\ DOMAIN ts = 1 .. Len(ts)
  BY <1>3 DEF Searches
<1> HIDE DEF s, open
<1>5. CASE r.owner[o] = 0
  <2>1. s \in Searches(ts, obs)
    BY <1>3
  <2>2. [s EXCEPT !.owner[o] = j] = [seen |-> s.seen, owner |-> [s.owner EXCEPT ![o] = j]]
    BY <2>1, WithOwner
  <2> QED
    BY <1>2, <1>3, <1>5, <2>2 DEF Outcome
<1>6. CASE r.owner[o] \in DOMAIN ts
  <2>1. a \in Searches(ts, obs)
    BY <1>3, <1>6 DEF Calls
  <2> HIDE DEF a
  <2>2. [a EXCEPT !.owner[o] = j] = [seen |-> a.seen, owner |-> [a.owner EXCEPT ![o] = j]]
    BY <2>1, WithOwner
  <2>3. r.owner[o] # 0
    BY <1>4, <1>6
  <2> QED
    BY <1>2, <1>3, <1>6, <2>2, <2>3 DEF a, Outcome
<1> QED
  BY <1>4, <1>5, <1>6

\* Every owner is a track that its observation is feasible for.
Fits(ts, obs, owner) == \A o \in obs : owner[o] = 0 \/ Feasible(ts[owner[o]], o)

\* No track has two observations of S.
Single(S, owner) == \A o, p \in S : owner[o] = owner[p] /\ owner[o] # 0 => o = p

\* Nothing outside T can have an observation of a track of T, nor is one free.
Closed(ts, obs, T, owner) ==
  \A t \in T, o \in obs : Feasible(ts[t], o) => owner[o] \in T

\* When a call for track j is made.
Ready(ts, obs, j, r) ==
  /\ Fits(ts, obs, r.owner) /\ Single(obs \ r.seen, r.owner)
  /\ \A o \in obs \ r.seen : r.owner[o] # j

\* After a call that fails: all that it could reach is taken, and was seen.
Barren(ts, obs, j, r, res) ==
  /\ \A o \in obs : Feasible(ts[j], o) => o \in res.seen
  /\ \A o \in res.seen \ r.seen :
       /\ r.owner[o] # 0
       /\ \A p \in obs : Feasible(ts[r.owner[o]], p) => p \in res.seen

\* After a call that succeeds: track j has an observation, and every other
\* track that had one.
SameAndOne(S, j, owner, owner2, T) ==
  \A t \in T : (\E o \in S : owner2[o] = t) <=> (t = j \/ \E o \in S : owner[o] = t)

Keeps(ts, obs, j, owner, owner2) ==
  \A T \in SUBSET DOMAIN ts : Closed(ts, obs, T, owner) =>
    j \notin T /\ \A o \in obs : owner[o] \in T => owner2[o] = owner[o]

Placed(ts, obs, j, r, res) ==
  /\ \A o \in r.seen : res.owner[o] = r.owner[o]
  /\ Fits(ts, obs, res.owner) /\ Single(obs \ r.seen, res.owner)
  /\ SameAndOne(obs \ r.seen, j, r.owner, res.owner, DOMAIN ts)
  /\ Keeps(ts, obs, j, r.owner, res.owner)

Good(ts, obs, j, r, res) ==
  /\ res \in Searches(ts, obs) /\ r.seen \subseteq res.seen
  /\ IF res.owner = r.owner THEN Barren(ts, obs, j, r, res) ELSE Placed(ts, obs, j, r, res)

\* A free observation.
LEMMA TakeIsPlaced ==
  ASSUME NEW ts \in Seq(Track), NEW obs, NEW j \in DOMAIN ts,
         NEW r \in Searches(ts, obs), Ready(ts, obs, j, r),
         NEW o \in obs \ r.seen, Feasible(ts[j], o), r.owner[o] = 0,
         NEW seen, NEW res, res = [seen |-> seen, owner |-> [r.owner EXCEPT ![o] = j]]
  PROVE  Placed(ts, obs, j, r, res) /\ res.owner # r.owner
<1>1. /\ r.owner \in [obs -> 0 .. Len(ts)] /\ r.seen \in SUBSET obs
      /\ DOMAIN ts = 1 .. Len(ts) /\ Len(ts) \in Nat
  BY DEF Searches
<1> DEFINE owner == res.owner
<1>2. /\ owner[o] = j /\ owner \in [obs -> 0 .. Len(ts)]
      /\ \A p \in obs : p # o => owner[p] = r.owner[p]
  BY <1>1
<1>3. j # 0
  BY <1>1
<1> HIDE DEF owner
<1>4. \A p \in r.seen : owner[p] = r.owner[p]
  BY <1>1, <1>2
<1>5. Fits(ts, obs, owner)
  BY <1>2 DEF Fits, Ready
<1>6. Single(obs \ r.seen, owner)
  BY <1>2 DEF Single, Ready
<1>7. SameAndOne(obs \ r.seen, j, r.owner, owner, DOMAIN ts)
  <2> SUFFICES ASSUME NEW t \in DOMAIN ts
               PROVE  (\E p \in obs \ r.seen : owner[p] = t)
                        <=> (t = j \/ \E p \in obs \ r.seen : r.owner[p] = t)
    BY DEF SameAndOne
  <2>1. t # 0
    BY <1>1
  <2>2. ASSUME NEW p \in obs \ r.seen, owner[p] = t, t # j PROVE r.owner[p] = t
    BY <2>2, <1>2
  <2>3. ASSUME NEW p \in obs \ r.seen, r.owner[p] = t PROVE owner[p] = t
    BY <2>1, <2>3, <1>2
  <2> QED
    BY <1>2, <2>2, <2>3
<1>8. Keeps(ts, obs, j, r.owner, owner)
  <2> SUFFICES ASSUME NEW T \in SUBSET DOMAIN ts, Closed(ts, obs, T, r.owner)
               PROVE  j \notin T /\ \A p \in obs : r.owner[p] \in T => owner[p] = r.owner[p]
    BY DEF Keeps
  <2>1. 0 \notin T
    BY <1>1
  <2> QED
    BY <1>2, <2>1 DEF Closed
<1>9. owner # r.owner
  BY <1>2, <1>3
<1> QED
  BY <1>4, <1>5, <1>6, <1>7, <1>8, <1>9 DEF Placed, owner

\* An observation whose owner k has found another one.
LEMMA DisplaceIsPlaced ==
  ASSUME NEW ts \in Seq(Track), NEW obs, NEW j \in DOMAIN ts,
         NEW r \in Searches(ts, obs), Ready(ts, obs, j, r),
         NEW o \in obs \ r.seen, Feasible(ts[j], o), r.owner[o] \in DOMAIN ts,
         NEW s \in Searches(ts, obs), s.seen = r.seen \cup {o}, s.owner = r.owner,
         NEW a \in Searches(ts, obs), Placed(ts, obs, r.owner[o], s, a),
         NEW res, res = [seen |-> a.seen, owner |-> [a.owner EXCEPT ![o] = j]]
  PROVE  Placed(ts, obs, j, r, res) /\ res.owner # r.owner
<1>1. /\ r.owner \in [obs -> 0 .. Len(ts)] /\ r.seen \in SUBSET obs
      /\ a.owner \in [obs -> 0 .. Len(ts)]
      /\ DOMAIN ts = 1 .. Len(ts) /\ Len(ts) \in Nat
  BY DEF Searches
<1> DEFINE owner == res.owner
           k == r.owner[o]
<1>2. /\ owner[o] = j /\ owner \in [obs -> 0 .. Len(ts)]
      /\ \A p \in obs : p # o => owner[p] = a.owner[p]
  BY <1>1
<1>3. j # 0 /\ k # 0 /\ k # j
  BY <1>1 DEF Ready
<1> HIDE DEF owner, k
<1>4. \A p \in r.seen : owner[p] = r.owner[p]
  BY <1>1, <1>2 DEF Placed
<1>5. Fits(ts, obs, owner)
  BY <1>2 DEF Fits, Placed
<1>6. \A t \in DOMAIN ts :
        (\E p \in obs \ s.seen : a.owner[p] = t)
          <=> (t = k \/ \E p \in obs \ s.seen : r.owner[p] = t)
  BY DEF Placed, SameAndOne, k
<1>7. \A p \in obs \ s.seen : r.owner[p] # j /\ a.owner[p] # j
  BY <1>3, <1>6 DEF Ready
<1>8. Single(obs \ r.seen, owner)
  <2>1. Single(obs \ s.seen, a.owner)
    BY DEF Placed
  <2> QED
    BY <2>1, <1>2, <1>7 DEF Single
<1>9. SameAndOne(obs \ r.seen, j, r.owner, owner, DOMAIN ts)
  <2> SUFFICES ASSUME NEW t \in DOMAIN ts
               PROVE  (\E p \in obs \ r.seen : owner[p] = t)
                        <=> (t = j \/ \E p \in obs \ r.seen : r.owner[p] = t)
    BY DEF SameAndOne
  <2>1. t # 0
    BY <1>1
  <2>2. ASSUME NEW p \in obs \ r.seen, owner[p] = t, t # j
        PROVE  \E q \in obs \ r.seen : r.owner[q] = t
    <3>1. p \in obs \ s.seen /\ a.owner[p] = t
      BY <2>2, <1>2
    <3>2. t = k \/ \E q \in obs \ s.seen : r.owner[q] = t
      BY <3>1, <1>6
    <3> QED
      BY <3>2 DEF k
  <2>3. ASSUME NEW p \in obs \ r.seen, r.owner[p] = t
        PROVE  \E q \in obs \ r.seen : owner[q] = t
    <3>1. t = k \/ \E q \in obs \ s.seen : r.owner[q] = t
      BY <2>3 DEF k
    <3>2. PICK q \in obs \ s.seen : a.owner[q] = t
      BY <3>1, <1>6
    <3> QED
      BY <3>2, <1>2
  <2> QED
    BY <1>2, <2>2, <2>3
<1>10. Keeps(ts, obs, j, r.owner, owner)
  <2> SUFFICES ASSUME NEW T \in SUBSET DOMAIN ts, Closed(ts, obs, T, r.owner)
               PROVE  j \notin T /\ \A p \in obs : r.owner[p] \in T => owner[p] = r.owner[p]
    BY DEF Keeps
  <2>1. k \notin T /\ \A p \in obs : r.owner[p] \in T => a.owner[p] = r.owner[p]
    BY DEF Placed, Keeps, k
  <2>2. j \notin T
    BY <2>1 DEF Closed, k
  <2> QED
    BY <2>1, <2>2, <1>2 DEF k
<1>11. owner # r.owner
  BY <1>2, <1>3 DEF k
<1> QED
  BY <1>4, <1>5, <1>8, <1>9, <1>10, <1>11 DEF Placed, owner

\* An observation whose owner found no other one: the loop goes on.
LEMMA OnwardIsGood ==
  ASSUME NEW ts \in Seq(Track), NEW obs, NEW j \in DOMAIN ts,
         NEW r \in Searches(ts, obs), Ready(ts, obs, j, r),
         NEW o \in obs \ r.seen, Feasible(ts[j], o), r.owner[o] \in DOMAIN ts,
         NEW s \in Searches(ts, obs), s.seen = r.seen \cup {o}, s.owner = r.owner,
         NEW a \in Searches(ts, obs), s.seen \subseteq a.seen, a.owner = r.owner,
         Barren(ts, obs, r.owner[o], s, a),
         NEW res, Good(ts, obs, j, a, res)
  PROVE  Good(ts, obs, j, r, res)
<1>1. /\ r.owner \in [obs -> 0 .. Len(ts)] /\ r.seen \in SUBSET obs
      /\ DOMAIN ts = 1 .. Len(ts) /\ Len(ts) \in Nat
  BY DEF Searches
<1>2. res \in Searches(ts, obs) /\ r.seen \subseteq res.seen /\ a.seen \subseteq res.seen
  BY DEF Good
<1>3. CASE res.owner = r.owner
  <2>1. Barren(ts, obs, j, a, res)
    BY <1>3 DEF Good
  <2>2. \A p \in obs : Feasible(ts[j], p) => p \in res.seen
    BY <2>1 DEF Barren
  <2>3. ASSUME NEW q \in res.seen \ r.seen
        PROVE  /\ r.owner[q] # 0
               /\ \A p \in obs : Feasible(ts[r.owner[q]], p) => p \in res.seen
    <3>1. CASE q \in res.seen \ a.seen
      BY <3>1, <2>1 DEF Barren
    <3>2. CASE q \in a.seen \ s.seen
      BY <3>2, <1>2 DEF Barren
    <3>3. CASE q = o
      <4>1. r.owner[o] # 0
        BY <1>1
      <4> QED
        BY <4>1, <3>3, <1>2 DEF Barren
    <3> QED
      BY <3>1, <3>2, <3>3
  <2>4. Barren(ts, obs, j, r, res)
    BY <2>2, <2>3 DEF Barren
  <2> QED
    BY <1>2, <1>3, <2>4 DEF Good
<1>4. CASE res.owner # r.owner
  <2>1. Placed(ts, obs, j, a, res)
    BY <1>4 DEF Good
  <2>2. \A p \in a.seen : res.owner[p] = r.owner[p]
    BY <2>1 DEF Placed
  <2>3. \A t \in DOMAIN ts :
          (\E p \in obs \ a.seen : res.owner[p] = t)
            <=> (t = j \/ \E p \in obs \ a.seen : r.owner[p] = t)
    BY <2>1 DEF Placed, SameAndOne
  <2>4. Single(obs \ r.seen, res.owner)
    <3> SUFFICES ASSUME NEW p \in obs \ r.seen, NEW q \in obs \ r.seen,
                        res.owner[p] = res.owner[q], res.owner[p] # 0
                 PROVE  p = q
      BY DEF Single
    <3>1. res.owner[p] \in DOMAIN ts
      BY <1>1, <1>2 DEF Searches
    <3>2. ASSUME NEW x \in a.seen \ r.seen, NEW y \in obs \ a.seen,
                 res.owner[x] = res.owner[y], res.owner[x] \in DOMAIN ts
          PROVE  FALSE
      <4>1. x \in obs \ r.seen /\ r.owner[x] = res.owner[y]
        BY <3>2, <2>2 DEF Searches
      <4>2. r.owner[x] # j
        BY <4>1 DEF Ready
      <4>3. PICK z \in obs \ a.seen : r.owner[z] = r.owner[x]
        BY <4>1, <4>2, <3>2, <2>3
      <4>4. r.owner[x] # 0
        BY <4>1, <3>2, <1>1
      <4>5. z \in obs \ r.seen /\ z # x
        BY <3>2
      <4> QED
        BY <4>1, <4>3, <4>4, <4>5 DEF Ready, Single
    <3>3. CASE p \in a.seen /\ q \in a.seen
      BY <3>3, <2>2 DEF Ready, Single
    <3>4. CASE p \notin a.seen /\ q \notin a.seen
      BY <3>4, <2>1 DEF Placed, Single
    <3> QED
      BY <3>1, <3>2, <3>3, <3>4
  <2>5. SameAndOne(obs \ r.seen, j, r.owner, res.owner, DOMAIN ts)
    <3> SUFFICES ASSUME NEW t \in DOMAIN ts
                 PROVE  (\E p \in obs \ r.seen : res.owner[p] = t)
                          <=> (t = j \/ \E p \in obs \ r.seen : r.owner[p] = t)
      BY DEF SameAndOne
    <3>1. obs \ a.seen \subseteq obs \ r.seen
      OBVIOUS
    <3> QED
      BY <3>1, <2>2, <2>3
  <2>6. Placed(ts, obs, j, r, res)
    BY <2>1, <2>2, <2>4, <2>5 DEF Placed
  <2> QED
    BY <1>2, <1>4, <2>6 DEF Good
<1> QED
  BY <1>3, <1>4

\* The calls that see at most n more observations are as they should be.
GoodTo(ts, obs, n, deeper) ==
  \A j \in DOMAIN ts, r \in Searches(ts, obs) :
    Cardinality(obs \ r.seen) <= n /\ Ready(ts, obs, j, r)
      => Good(ts, obs, j, r, deeper[j][r])

\* A call keeps its promise when the calls it makes do.
LEMMA TryIsGood ==
  ASSUME NEW ts \in Seq(Track), NEW obs \in SUBSET Sizes, IsFiniteSet(obs),
         NEW n \in Nat, NEW deeper \in Calls(ts, obs), GoodTo(ts, obs, n, deeper),
         NEW j \in DOMAIN ts, NEW r \in Searches(ts, obs),
         Cardinality(obs \ r.seen) <= n + 1, Ready(ts, obs, j, r)
  PROVE  Good(ts, obs, j, r, Try(ts, obs, j, r, deeper))
<1> DEFINE res == Try(ts, obs, j, r, deeper)
<1>1. /\ r.owner \in [obs -> 0 .. Len(ts)] /\ r.seen \in SUBSET obs
      /\ DOMAIN ts = 1 .. Len(ts) /\ Len(ts) \in Nat
  BY DEF Searches
<1>2. CASE {o \in obs \ r.seen : Feasible(ts[j], o)} = {}
  <2>1. res = r
    BY <1>2 DEF Try
  <2> QED
    BY <1>1, <1>2, <2>1 DEF Good, Barren
<1>3. CASE {o \in obs \ r.seen : Feasible(ts[j], o)} # {}
  <2>1. PICK o \in obs \ r.seen, s \in Searches(ts, obs) :
           /\ Feasible(ts[j], o)
           /\ s.seen = r.seen \cup {o} /\ s.owner = r.owner
           /\ Outcome(ts, j, r, deeper, o, s, res)
    BY <1>3, TryCases
  <2> HIDE DEF res
  <2> DEFINE k == r.owner[o]
             a == deeper[k][s]
  <2>2. \A p \in Searches(ts, obs) : s.seen \subseteq p.seen => Cardinality(obs \ p.seen) <= n
    <3> TAKE p \in Searches(ts, obs)
    <3> HAVE s.seen \subseteq p.seen
    <3>1. obs \ p.seen \in SUBSET ((obs \ r.seen) \ {o}) /\ IsFiniteSet(obs \ r.seen)
      BY <2>1, FS_Difference
    <3>2. /\ Cardinality((obs \ r.seen) \ {o}) = Cardinality(obs \ r.seen) - 1
          /\ IsFiniteSet((obs \ r.seen) \ {o}) /\ Cardinality(obs \ r.seen) \in Nat
      <4> DEFINE S == obs \ r.seen
      <4>1. o \in S /\ IsFiniteSet(S)
        BY <3>1
      <4> HIDE DEF S
      <4> QED
        BY <4>1, FS_RemoveElement, FS_CardinalityType DEF S
    <3>3. /\ Cardinality(obs \ p.seen) <= Cardinality((obs \ r.seen) \ {o})
          /\ Cardinality(obs \ p.seen) \in Nat
      BY <3>1, <3>2, FS_Subset, FS_CardinalityType
    <3> QED
      BY <3>2, <3>3
  <2>3. CASE k = 0
    <3>1. res = [seen |-> s.seen, owner |-> [r.owner EXCEPT ![o] = j]]
      BY <2>1, <2>3, <1>1 DEF Outcome
    <3>2. Placed(ts, obs, j, r, res) /\ res.owner # r.owner
      BY <2>1, <2>3, <3>1, TakeIsPlaced
    <3>3. res \in Searches(ts, obs) /\ r.seen \subseteq res.seen
      BY <3>1, <2>1, <1>1 DEF Searches
    <3> QED
      BY <3>2, <3>3 DEF Good, res
  <2>4. CASE k \in DOMAIN ts
    <3>1. Ready(ts, obs, k, s)
      <4>1. Fits(ts, obs, s.owner)
        BY <2>1 DEF Ready
      <4>2. Single(obs \ s.seen, s.owner)
        BY <2>1 DEF Ready, Single
      <4>3. \A p \in obs \ s.seen : s.owner[p] # k
        <5>1. k # 0
          BY <2>4, <1>1
        <5> QED
          BY <5>1, <2>1 DEF Ready, Single
      <4> QED
        BY <4>1, <4>2, <4>3 DEF Ready
    <3>2. Good(ts, obs, k, s, a)
      BY <3>1, <2>2, <2>4 DEF GoodTo
    <3>3. a \in Searches(ts, obs) /\ s.seen \subseteq a.seen
      BY <3>2 DEF Good
    <3>4. \/ /\ a.owner # r.owner
             /\ res = [seen |-> a.seen, owner |-> [a.owner EXCEPT ![o] = j]]
          \/ a.owner = r.owner /\ res = deeper[j][a]
      <4>1. r.owner[o] # 0
        BY <2>4, <1>1
      <4> QED
        BY <2>1, <4>1, OutcomeTaken
    <3> HIDE DEF a
    <3>5. CASE a.owner # r.owner
      <4>1. res = [seen |-> a.seen, owner |-> [a.owner EXCEPT ![o] = j]]
        BY <3>5, <3>4
      <4>2. Placed(ts, obs, k, s, a)
        BY <3>2, <3>5, <2>1 DEF Good
      <4>3. Placed(ts, obs, j, r, res) /\ res.owner # r.owner
        BY <4>1, <4>2, <3>3, <2>1, <2>4, DisplaceIsPlaced
      <4>4. res \in Searches(ts, obs) /\ r.seen \subseteq res.seen
        BY <4>1, <3>3, <2>1, <1>1 DEF Searches
      <4> QED
        BY <4>3, <4>4 DEF Good, res
    <3>6. CASE a.owner = r.owner
      <4>1. res = deeper[j][a]
        BY <3>6, <3>4
      <4>2. Barren(ts, obs, k, s, a)
        BY <3>2, <3>6, <2>1 DEF Good
      <4>3. Ready(ts, obs, j, a)
        <5>1. obs \ a.seen \subseteq obs \ r.seen
          BY <3>3, <2>1
        <5> QED
          BY <5>1, <3>6 DEF Ready, Single
      <4>4. Good(ts, obs, j, a, res)
        BY <4>1, <4>3, <3>3, <2>2 DEF GoodTo
      <4> QED
        BY <4>2, <4>4, <3>3, <3>6, <2>1, <2>4, OnwardIsGood DEF res
    <3> QED
      BY <3>5, <3>6
  <2> QED
    BY <2>3, <2>4, <1>1
<1> QED
  BY <1>2, <1>3

\* One round of the recursive calls: those that see one observation more.
Round(ts, obs, n, deeper) ==
  [j \in DOMAIN ts |-> [r \in Searches(ts, obs) |->
     IF n = 0 THEN r ELSE Try(ts, obs, j, r, deeper)]]

\* Augment is the last round of a function that satisfies its equation.
LEMMA AugmentIs ==
  ASSUME NEW ts, NEW obs, Cardinality(obs) \in Nat,
         NEW g, g = [n \in 0 .. Cardinality(obs) |-> Round(ts, obs, n, g[n - 1])]
  PROVE  \E f : /\ f = [n \in 0 .. Cardinality(obs) |-> Round(ts, obs, n, f[n - 1])]
                /\ \A i, search : Augment(ts, obs, i, search) = f[Cardinality(obs)][i][search]
<1> DEFINE h == CHOOSE f : f = [n \in 0 .. Cardinality(obs) |-> Round(ts, obs, n, f[n - 1])]
<1>1. h = [n \in 0 .. Cardinality(obs) |-> Round(ts, obs, n, h[n - 1])]
  OBVIOUS
<1>2. \A i, search : Augment(ts, obs, i, search) = h[Cardinality(obs)][i][search]
  BY DEF Augment, Round
<1> QED
  BY <1>1, <1>2

\* A call returns a search.
LEMMA TryTyped ==
  ASSUME NEW ts \in Seq(Track), NEW obs \in SUBSET Sizes, NEW j \in DOMAIN ts,
         NEW r \in Searches(ts, obs), NEW deeper \in Calls(ts, obs)
  PROVE  Try(ts, obs, j, r, deeper) \in Searches(ts, obs)
<1> DEFINE res == Try(ts, obs, j, r, deeper)
<1>1. CASE {o \in obs \ r.seen : Feasible(ts[j], o)} = {}
  BY <1>1 DEF Try
<1>2. CASE {o \in obs \ r.seen : Feasible(ts[j], o)} # {}
  <2>1. PICK o \in obs \ r.seen, s \in Searches(ts, obs) :
          /\ Feasible(ts[j], o)
          /\ s.seen = r.seen \cup {o} /\ s.owner = r.owner
          /\ Outcome(ts, j, r, deeper, o, s, res)
    BY <1>2, TryCases
  <2> HIDE DEF res
  <2>2. DOMAIN ts = 1 .. Len(ts) /\ Len(ts) \in Nat
    OBVIOUS
  <2>3. CASE r.owner[o] = 0
    BY <2>1, <2>2, <2>3 DEF Outcome, Searches, res
  <2>4. CASE r.owner[o] \in DOMAIN ts
    <3> DEFINE a == deeper[r.owner[o]][s]
    <3>1. a \in Searches(ts, obs)
      BY <2>1, <2>4 DEF Calls
    <3>2. deeper[j][a] \in Searches(ts, obs)
      BY <3>1 DEF Calls
    <3>3. [seen |-> a.seen, owner |-> [a.owner EXCEPT ![o] = j]] \in Searches(ts, obs)
      BY <3>1, <2>2 DEF Searches
    <3>4. \/ res = [seen |-> a.seen, owner |-> [a.owner EXCEPT ![o] = j]]
          \/ res = deeper[j][a]
      <4>1. r.owner[o] # 0
        BY <2>2, <2>4
      <4> QED
        BY <2>1, <4>1, OutcomeTaken
    <3> QED
      BY <3>2, <3>3, <3>4 DEF res
  <2> QED
    BY <2>1, <2>2, <2>3, <2>4 DEF Searches
<1> QED
  BY <1>1, <1>2

\* A round of calls returns searches.
LEMMA RoundTyped ==
  ASSUME NEW ts \in Seq(Track), NEW obs \in SUBSET Sizes,
         NEW n \in Nat, NEW deeper, n = 0 \/ deeper \in Calls(ts, obs)
  PROVE  Round(ts, obs, n, deeper) \in Calls(ts, obs)
<1>1. ASSUME NEW j \in DOMAIN ts, NEW r \in Searches(ts, obs)
      PROVE  (IF n = 0 THEN r ELSE Try(ts, obs, j, r, deeper)) \in Searches(ts, obs)
  BY TryTyped
<1> QED
  BY <1>1 DEF Round, Calls

\* There is a function that satisfies the equation of augment.
LEMMA RoundsExist ==
  ASSUME NEW ts \in Seq(Track), NEW obs \in SUBSET Sizes, Cardinality(obs) \in Nat
  PROVE  \E g : g = [n \in 0 .. Cardinality(obs) |-> Round(ts, obs, n, g[n - 1])]
<1> DEFINE N == Cardinality(obs)
           V == Calls(ts, obs)
           base == Round(ts, obs, 0, 0)
           step == [n \in 1 .. N |-> [d \in V |-> Round(ts, obs, n, d)]]
<1>1. base \in V
  BY RoundTyped
<1>2. step \in [1 .. N -> [V -> V]]
  <2>1. ASSUME NEW n \in 1 .. N, NEW d \in V PROVE Round(ts, obs, n, d) \in V
    BY RoundTyped
  <2> HIDE DEF V
  <2> QED
    BY <2>1
<1> HIDE DEF V, base
<1>3. PICK g : Iterates(N, V, base, step, g)
  <2> HIDE DEF step
  <2> QED
    BY <1>1, <1>2, IteratesExist
<1>4. ASSUME NEW n \in 0 .. N PROVE g[n] = Round(ts, obs, n, g[n - 1])
  <2>1. CASE n = 0
    BY <1>3, <2>1 DEF base, Round, Iterates
  <2>2. CASE n \in 1 .. N
    <3>1. g[n - 1] \in V
      BY <2>2, <1>3 DEF Iterates
    <3> QED
      BY <2>2, <3>1, <1>3 DEF Iterates
  <2> QED
    BY <2>1, <2>2
<1>5. g = [n \in 0 .. N |-> Round(ts, obs, n, g[n - 1])]
  BY <1>3, <1>4 DEF Iterates
<1> QED
  BY <1>5

\* The lambda augment keeps its promise.
LEMMA AugmentIsGood ==
  ASSUME NEW ts \in Seq(Track), NEW obs \in SUBSET Sizes, IsFiniteSet(obs),
         NEW i \in DOMAIN ts, NEW search \in Searches(ts, obs)
  PROVE  /\ Augment(ts, obs, i, search) \in Searches(ts, obs)
         /\ Ready(ts, obs, i, search)
              => Good(ts, obs, i, search, Augment(ts, obs, i, search))
<1> DEFINE N == Cardinality(obs)
<1>1. N \in Nat
  BY FS_CardinalityType
<1>2. PICK g : /\ g = [n \in 0 .. N |-> Round(ts, obs, n, g[n - 1])]
               /\ \A j, r : Augment(ts, obs, j, r) = g[N][j][r]
  BY <1>1, RoundsExist, AugmentIs
<1> HIDE DEF N
<1> DEFINE S == {n \in Nat : n <= N => g[n] \in Calls(ts, obs) /\ GoodTo(ts, obs, n, g[n])}
<1>3. 0 \in S
  <2>1. g[0] = Round(ts, obs, 0, g[0 - 1])
    BY <1>1, <1>2
  <2>2. g[0] \in Calls(ts, obs)
    BY <2>1, RoundTyped
  <2>3. ASSUME NEW j \in DOMAIN ts, NEW r \in Searches(ts, obs), Cardinality(obs \ r.seen) <= 0
        PROVE  Good(ts, obs, j, r, g[0][j][r])
    <3>1. g[0][j][r] = r
      BY <2>1 DEF Round
    <3>2. IsFiniteSet(obs \ r.seen) /\ Cardinality(obs \ r.seen) \in Nat
      BY FS_Difference, FS_CardinalityType
    <3>3. obs \ r.seen = {}
      BY <3>2, <2>3, FS_EmptySet
    <3> QED
      BY <3>1, <3>3 DEF Good, Barren
  <2>4. GoodTo(ts, obs, 0, g[0])
    BY <2>3 DEF GoodTo
  <2> QED
    BY <2>2, <2>4
<1>4. ASSUME NEW n \in S PROVE n + 1 \in S
  <2> SUFFICES ASSUME n + 1 <= N
               PROVE  g[n + 1] \in Calls(ts, obs) /\ GoodTo(ts, obs, n + 1, g[n + 1])
    OBVIOUS
  <2>1. g[n] \in Calls(ts, obs) /\ GoodTo(ts, obs, n, g[n]) /\ n \in Nat
    BY <1>1
  <2> HIDE DEF S
  <2>2. g[n + 1] = Round(ts, obs, n + 1, g[n])
    <3>1. n + 1 \in 0 .. N /\ (n + 1) - 1 = n
      BY <1>1, <2>1
    <3>2. g[n + 1] = Round(ts, obs, n + 1, g[(n + 1) - 1])
      BY <1>2, <3>1
    <3> QED
      BY <3>1, <3>2
  <2>3. g[n + 1] \in Calls(ts, obs)
    BY <2>1, <2>2, RoundTyped
  <2>4. ASSUME NEW j \in DOMAIN ts, NEW r \in Searches(ts, obs),
               Cardinality(obs \ r.seen) <= n + 1, Ready(ts, obs, j, r)
        PROVE  Good(ts, obs, j, r, g[n + 1][j][r])
    <3>1. g[n + 1][j][r] = Try(ts, obs, j, r, g[n])
      BY <2>1, <2>2 DEF Round
    <3> QED
      BY <2>1, <2>4, <3>1, TryIsGood
  <2> QED
    BY <2>3, <2>4 DEF GoodTo
<1>5. S = Nat
  <2>1. S \in SUBSET Nat
    OBVIOUS
  <2> HIDE DEF S
  <2> QED
    BY <1>3, <1>4, <2>1, SetInduction
<1>6. g[N] \in Calls(ts, obs) /\ GoodTo(ts, obs, N, g[N])
  BY <1>1, <1>5
<1>7. Cardinality(obs \ search.seen) <= N
  BY FS_Difference, FS_Subset DEF N
<1>8. Ready(ts, obs, i, search) => Good(ts, obs, i, search, g[N][i][search])
  BY <1>6, <1>7 DEF GoodTo
<1>9. g[N][i][search] \in Searches(ts, obs)
  BY <1>6 DEF Calls
<1> QED
  BY <1>2, <1>8, <1>9
-----------------------------------------------------------------------------
(* The matching.                                                           *)

\* What the searches from the first k tracks leave.  Some tracks T may stay
\* without an observation: those of T are all that want the observations that
\* they could have.
Matched(ts, obs, k, w) ==
  /\ w \in [obs -> 0 .. Len(ts)]
  /\ Fits(ts, obs, w) /\ Single(obs, w)
  /\ \A o \in obs : w[o] <= k
  /\ \E T \in SUBSET (1 .. k) :
       /\ Closed(ts, obs, T, w)
       /\ \A t \in 1 .. k : (\A o \in obs : w[o] # t) => t \in T

\* The search from track k.
Searched(ts, obs, k, w) == Augment(ts, obs, k, [seen |-> {}, owner |-> w]).owner

\* The search for one more track leaves the first k matched.
LEMMA SearchedIsMatched ==
  ASSUME NEW ts \in Seq(Track), NEW obs \in SUBSET Sizes, IsFiniteSet(obs),
         NEW k \in DOMAIN ts, NEW w, Matched(ts, obs, k - 1, w)
  PROVE  Matched(ts, obs, k, Searched(ts, obs, k, w))
<1> DEFINE r == [seen |-> {}, owner |-> w]
           res == Augment(ts, obs, k, r)
<1>1. /\ DOMAIN ts = 1 .. Len(ts) /\ Len(ts) \in Nat /\ k \in 1 .. Len(ts)
      /\ w \in [obs -> 0 .. Len(ts)]
  BY DEF Matched
<1>2. r \in Searches(ts, obs) /\ r.seen = {} /\ r.owner = w
  BY <1>1 DEF Searches
<1> HIDE DEF r
<1>3. Ready(ts, obs, k, r)
  <2>1. Single(obs \ r.seen, r.owner)
    BY <1>2 DEF Matched, Single
  <2>2. \A o \in obs \ r.seen : r.owner[o] # k
    BY <1>1, <1>2 DEF Matched
  <2> QED
    BY <1>2, <2>1, <2>2 DEF Ready, Matched
<1>4. Good(ts, obs, k, r, res)
  BY <1>2, <1>3, AugmentIsGood
<1>5. Searched(ts, obs, k, w) = res.owner
  BY DEF Searched, r
<1> HIDE DEF res
<1>6. res \in Searches(ts, obs)
  BY <1>4 DEF Good
<1>7. PICK T \in SUBSET (1 .. k - 1) :
        /\ Closed(ts, obs, T, w)
        /\ \A t \in 1 .. k - 1 : (\A o \in obs : w[o] # t) => t \in T
  BY DEF Matched
<1>8. CASE res.owner = w
  <2>1. Barren(ts, obs, k, r, res)
    BY <1>2, <1>4, <1>8 DEF Good
  <2> DEFINE U == T \cup {k} \cup {w[o] : o \in res.seen}
  <2>2. \A o \in res.seen : o \in obs /\ w[o] \in 1 .. k - 1
    <3> TAKE o \in res.seen
    <3>1. o \in obs /\ w[o] # 0
      BY <1>2, <1>6, <2>1 DEF Barren, Searches
    <3> QED
      BY <3>1, <1>1 DEF Matched
  <2>3. U \in SUBSET (1 .. k)
    <3>1. T \in SUBSET (1 .. k) /\ k \in 1 .. k
      BY <1>1
    <3>2. \A o \in res.seen : w[o] \in 1 .. k
      BY <2>2, <1>1
    <3> QED
      BY <3>1, <3>2
  <2>4. Closed(ts, obs, U, w)
    <3> SUFFICES ASSUME NEW t \in U, NEW o \in obs, Feasible(ts[t], o) PROVE w[o] \in U
      BY DEF Closed
    <3>1. CASE t \in T
      BY <3>1, <1>7 DEF Closed
    <3>2. CASE t = k
      BY <3>2, <1>2, <2>1 DEF Barren
    <3>3. CASE t \in {w[p] : p \in res.seen}
      <4>1. PICK p \in res.seen : t = w[p]
        BY <3>3
      <4>2. o \in res.seen
        BY <4>1, <1>2, <2>1 DEF Barren
      <4> QED
        BY <4>2
    <3> QED
      BY <3>1, <3>2, <3>3
  <2>5. \A t \in 1 .. k : (\A o \in obs : w[o] # t) => t \in U
    BY <1>1, <1>7
  <2>6. \A o \in obs : w[o] <= k
    BY <1>1 DEF Matched
  <2> HIDE DEF U
  <2> QED
    BY <1>1, <1>5, <1>8, <2>3, <2>4, <2>5, <2>6 DEF Matched
<1>9. CASE res.owner # w
  <2>1. Placed(ts, obs, k, r, res)
    BY <1>2, <1>4, <1>9 DEF Good
  <2>2. obs \ r.seen = obs
    BY <1>2
  <2>3. Fits(ts, obs, res.owner) /\ Single(obs, res.owner)
    BY <2>1, <2>2 DEF Placed
  <2>4. res.owner \in [obs -> 0 .. Len(ts)]
    BY <1>6 DEF Searches
  <2>5. \A t \in DOMAIN ts :
          (\E o \in obs : res.owner[o] = t) <=> (t = k \/ \E o \in obs : w[o] = t)
    BY <1>2, <2>1, <2>2 DEF Placed, SameAndOne
  <2>6. \A o \in obs : res.owner[o] <= k
    <3> TAKE o \in obs
    <3>1. CASE res.owner[o] = 0
      BY <3>1, <1>1
    <3>2. CASE res.owner[o] \in DOMAIN ts
      <4>1. res.owner[o] = k \/ \E p \in obs : w[p] = res.owner[o]
        BY <3>2, <2>5
      <4> QED
        BY <4>1, <1>1 DEF Matched
    <3> QED
      BY <3>1, <3>2, <2>4, <1>1
  <2>7. T \in SUBSET DOMAIN ts /\ T \in SUBSET (1 .. k)
    BY <1>1
  <2>8. \A o \in obs : w[o] \in T => res.owner[o] = w[o]
    BY <1>2, <1>7, <2>1, <2>7 DEF Placed, Keeps
  <2>9. Closed(ts, obs, T, res.owner)
    BY <1>7, <2>8 DEF Closed
  <2>10. \A t \in 1 .. k : (\A o \in obs : res.owner[o] # t) => t \in T
    <3> SUFFICES ASSUME NEW t \in 1 .. k, \A o \in obs : res.owner[o] # t PROVE t \in T
      OBVIOUS
    <3>1. t \in DOMAIN ts
      BY <1>1
    <3>2. t # k /\ \A o \in obs : w[o] # t
      BY <3>1, <2>5
    <3> QED
      BY <3>2, <1>1, <1>7
  <2> QED
    BY <1>5, <2>3, <2>4, <2>6, <2>7, <2>9, <2>10 DEF Matched
<1> QED
  BY <1>8, <1>9

\* Owners is the last value of a function that satisfies its equation.
LEMMA OwnersAre ==
  ASSUME NEW ts, NEW obs, Len(ts) \in Nat,
         NEW g, g = [k \in 0 .. Len(ts) |-> IF k = 0 THEN [o \in obs |-> 0]
                                            ELSE Searched(ts, obs, k, g[k - 1])]
  PROVE  \E f : /\ f = [k \in 0 .. Len(ts) |-> IF k = 0 THEN [o \in obs |-> 0]
                                               ELSE Searched(ts, obs, k, f[k - 1])]
                /\ Owners(ts, obs) = f[Len(ts)]
<1> DEFINE h == CHOOSE f : f = [k \in 0 .. Len(ts) |-> IF k = 0 THEN [o \in obs |-> 0]
                                            ELSE Searched(ts, obs, k, f[k - 1])]
<1>1. h = [k \in 0 .. Len(ts) |-> IF k = 0 THEN [o \in obs |-> 0]
                                  ELSE Searched(ts, obs, k, h[k - 1])]
  OBVIOUS
<1>2. Owners(ts, obs) = h[Len(ts)]
  BY DEF Owners, Searched
<1> QED
  BY <1>1, <1>2

\* After the searches for all tracks, they are matched.
LEMMA OwnersMatched ==
  ASSUME NEW ts \in Seq(Track), NEW obs \in SUBSET Sizes, IsFiniteSet(obs)
  PROVE  Matched(ts, obs, Len(ts), Owners(ts, obs))
<1> DEFINE N == Len(ts)
           V == [obs -> 0 .. N]
           none == [o \in obs |-> 0]
           step == [k \in 1 .. N |-> [w \in V |-> Searched(ts, obs, k, w)]]
<1>1. N \in Nat /\ DOMAIN ts = 1 .. N
  OBVIOUS
<1>2. none \in V
  BY <1>1
<1>3. step \in [1 .. N -> [V -> V]]
  <2>1. ASSUME NEW k \in 1 .. N, NEW w \in V PROVE Searched(ts, obs, k, w) \in V
    <3>1. [seen |-> {}, owner |-> w] \in Searches(ts, obs)
      BY DEF Searches
    <3>2. Augment(ts, obs, k, [seen |-> {}, owner |-> w]) \in Searches(ts, obs)
      BY <1>1, <3>1, AugmentIsGood
    <3> QED
      BY <3>2 DEF Searched, Searches
  <2> HIDE DEF V
  <2> QED
    BY <2>1
<1> HIDE DEF V
<1>4. PICK g : Iterates(N, V, none, step, g)
  <2> HIDE DEF step, none, N
  <2> QED
    BY <1>1, <1>2, <1>3, IteratesExist
<1>5. ASSUME NEW k \in 0 .. N
      PROVE  g[k] = IF k = 0 THEN none ELSE Searched(ts, obs, k, g[k - 1])
  <2>1. CASE k = 0
    BY <1>4, <2>1 DEF Iterates
  <2>2. CASE k \in 1 .. N
    <3>1. g[k - 1] \in V /\ g[k] = step[k][g[k - 1]]
      BY <2>2, <1>1, <1>4 DEF Iterates
    <3> QED
      BY <2>2, <3>1
  <2> QED
    BY <2>1, <2>2
<1>6. g = [k \in 0 .. N |-> IF k = 0 THEN none ELSE Searched(ts, obs, k, g[k - 1])]
  BY <1>4, <1>5 DEF Iterates
<1>7. PICK f : /\ f = [k \in 0 .. N |-> IF k = 0 THEN none ELSE Searched(ts, obs, k, f[k - 1])]
               /\ Owners(ts, obs) = f[N]
  BY <1>1, <1>6, OwnersAre
<1> DEFINE S == {k \in Nat : k <= N => Matched(ts, obs, k, f[k])}
<1>8. 0 \in S
  <2>1. f[0] = none
    BY <1>1, <1>7
  <2>2. Matched(ts, obs, 0, none)
    <3>1. \A t \in 1 .. 0 : FALSE
      OBVIOUS
    <3>2. {} \in SUBSET (1 .. 0) /\ Closed(ts, obs, {}, none)
      BY DEF Closed
    <3>3. Fits(ts, obs, none) /\ Single(obs, none) /\ \A o \in obs : none[o] <= 0
      BY DEF Fits, Single
    <3> HIDE DEF none
    <3> QED
      BY <1>1, <1>2, <3>1, <3>2, <3>3 DEF Matched, V
  <2> QED
    BY <2>1, <2>2
<1>9. ASSUME NEW k \in S PROVE k + 1 \in S
  <2> SUFFICES ASSUME k + 1 <= N PROVE Matched(ts, obs, k + 1, f[k + 1])
    OBVIOUS
  <2>1. /\ k \in Nat /\ k + 1 \in 0 .. N /\ k + 1 # 0 /\ (k + 1) - 1 = k /\ k + 1 \in DOMAIN ts
        /\ Matched(ts, obs, k, f[k])
    BY <1>1
  <2>2. f[k + 1] = Searched(ts, obs, k + 1, f[(k + 1) - 1])
    BY <1>7, <2>1
  <2> HIDE DEF S
  <2> QED
    BY <2>1, <2>2, SearchedIsMatched
<1>10. S = Nat
  <2>1. S \in SUBSET Nat
    OBVIOUS
  <2> HIDE DEF S
  <2> QED
    BY <1>8, <1>9, <2>1, SetInduction
<1>11. Matched(ts, obs, N, f[N])
  BY <1>1, <1>10
<1> QED
  BY <1>7, <1>11

\* The edges and the matchings of the reference, and what is matched.
Edges(ts, obs) == {e \in (DOMAIN ts) \X obs : Feasible(ts[e[1]], e[2])}

Matchings(ts, obs) == {M \in SUBSET Edges(ts, obs) : \A e, f \in M : e[1] = f[1] <=> e[2] = f[2]}

Taken(obs, w) == {o \in obs : w[o] # 0}

\* A matching is no larger: the tracks of T have to share what T has, and every
\* other track has an observation already.
LEMMA NoLargerMatching ==
  ASSUME NEW ts \in Seq(Track), NEW obs, IsFiniteSet(obs),
         NEW w, Matched(ts, obs, Len(ts), w), NEW M \in Matchings(ts, obs)
  PROVE  Cardinality(M) <= Cardinality(Taken(obs, w))
<1>1. DOMAIN ts = 1 .. Len(ts) /\ Len(ts) \in Nat /\ w \in [obs -> 0 .. Len(ts)]
  BY DEF Matched
<1>2. PICK T \in SUBSET (1 .. Len(ts)) :
        /\ Closed(ts, obs, T, w)
        /\ \A t \in 1 .. Len(ts) : (\A o \in obs : w[o] # t) => t \in T
  BY DEF Matched
<1>3. \A e \in M : /\ e[1] \in 1 .. Len(ts) /\ e[2] \in obs
                   /\ Feasible(ts[e[1]], e[2]) /\ e = <<e[1], e[2]>>
  BY <1>1 DEF Matchings, Edges
<1>4. \A e, f \in M : (e[1] = f[1] <=> e[2] = f[2])
  BY DEF Matchings
<1> DEFINE own(e) == CHOOSE o \in obs : w[o] = e[1]
           to == [e \in M |-> IF e[1] \in T THEN e[2] ELSE own(e)]
<1>5. ASSUME NEW e \in M
      PROVE  /\ to[e] \in obs /\ w[to[e]] # 0
             /\ e[1] \in T => to[e] = e[2] /\ w[to[e]] \in T
             /\ e[1] \notin T => w[to[e]] = e[1]
  <2>1. CASE e[1] \in T
    <3>1. to[e] = e[2]
      BY <2>1
    <3>2. w[e[2]] \in T
      BY <2>1, <1>2, <1>3 DEF Closed
    <3>3. w[e[2]] # 0
      BY <3>2, <1>1
    <3> QED
      BY <2>1, <3>1, <3>2, <3>3, <1>3
  <2>2. CASE e[1] \notin T
    <3>1. own(e) \in obs /\ w[own(e)] = e[1]
      BY <2>2, <1>2, <1>3
    <3>2. to[e] = own(e)
      BY <2>2
    <3>3. e[1] # 0
      BY <1>3
    <3> QED
      BY <2>2, <3>1, <3>2, <3>3
  <2> QED
    BY <2>1, <2>2
<1>6. to \in [M -> Taken(obs, w)]
  <2>1. \A e \in M : to[e] \in Taken(obs, w)
    BY <1>5 DEF Taken
  <2> QED
    BY <2>1
<1> HIDE DEF to
<1>7. ASSUME NEW e \in M, NEW f \in M, to[e] = to[f] PROVE e = f
  <2>1. e[1] = f[1] \/ e[2] = f[2]
    BY <1>5, <1>7
  <2>2. e[1] = f[1] /\ e[2] = f[2]
    BY <2>1, <1>4
  <2> QED
    BY <2>2, <1>3
<1>8. to \in Injection(M, Taken(obs, w))
  BY <1>6, <1>7 DEF Injection, IsInjective
<1>9. IsFiniteSet(Taken(obs, w))
  BY FS_Subset DEF Taken
<1> QED
  BY <1>8, <1>9, FS_Injection

\* The matching found is a matching.
LEMMA TakenIsMatching ==
  ASSUME NEW ts \in Seq(Track), NEW obs, IsFiniteSet(obs),
         NEW w, Matched(ts, obs, Len(ts), w)
  PROVE  \E M \in Matchings(ts, obs) : Cardinality(M) = Cardinality(Taken(obs, w))
<1>1. DOMAIN ts = 1 .. Len(ts) /\ Len(ts) \in Nat /\ w \in [obs -> 0 .. Len(ts)]
  BY DEF Matched
<1> DEFINE S == Taken(obs, w)
           M == {<<w[o], o>> : o \in S}
           edge == [o \in S |-> <<w[o], o>>]
<1>2. \A o \in S : o \in obs /\ w[o] \in DOMAIN ts /\ Feasible(ts[w[o]], o)
  BY <1>1 DEF Taken, Matched, Fits
<1>3. \A o, p \in S : w[o] = w[p] => o = p
  BY DEF Taken, Matched, Single
<1>4. M \in Matchings(ts, obs)
  <2>1. M \in SUBSET Edges(ts, obs)
    BY <1>2 DEF Edges
  <2>2. \A e, f \in M : e[1] = f[1] <=> e[2] = f[2]
    BY <1>3
  <2> HIDE DEF M
  <2> QED
    BY <2>1, <2>2 DEF Matchings
<1>5. edge \in Bijection(S, M)
  <2>1. edge \in [S -> M]
    OBVIOUS
  <2>2. \A o, p \in S : edge[o] = edge[p] => o = p
    OBVIOUS
  <2>3. \A e \in M : \E o \in S : edge[o] = e
    OBVIOUS
  <2> HIDE DEF edge, S, M
  <2> QED
    BY <2>1, <2>2, <2>3 DEF Bijection, Injection, Surjection, IsInjective
<1>6. IsFiniteSet(S)
  BY FS_Subset DEF Taken
<1>7. Cardinality(M) = Cardinality(S)
  <2>1. ExistsBijection(S, M)
    BY <1>5 DEF ExistsBijection
  <2> HIDE DEF S, M
  <2> QED
    BY <1>6, <2>1, FS_Bijection
<1> QED
  BY <1>4, <1>7

\* Matched tracks are matched as well as any matching does it.
LEMMA MatchedIsMost ==
  ASSUME NEW ts \in Seq(Track), NEW obs, IsFiniteSet(obs),
         NEW w, Matched(ts, obs, Len(ts), w)
  PROVE  MostMatched(ts, obs) = Cardinality(Taken(obs, w))
<1> DEFINE n == Cardinality(Taken(obs, w))
           S == {Cardinality(M) : M \in Matchings(ts, obs)}
<1>1. MostMatched(ts, obs) = Max(S)
  BY DEF MostMatched, Matchings, Edges
<1>2. n \in Nat
  BY FS_Subset, FS_CardinalityType DEF Taken
<1>3. n \in S
  BY TakenIsMatching
<1>4. \A x \in S : x <= n
  BY NoLargerMatching
<1>5. \A x \in S : x \in Int
  <2> TAKE x \in S
  <2>1. PICK M \in Matchings(ts, obs) : x = Cardinality(M)
    OBVIOUS
  <2>2. IsFiniteSet((DOMAIN ts) \X obs)
    <3>1. DOMAIN ts = 1 .. Len(ts) /\ IsFiniteSet(1 .. Len(ts))
      BY FS_Interval
    <3> QED
      BY <3>1, FS_Product
  <2>3. IsFiniteSet(M)
    BY <2>2, FS_Subset DEF Matchings, Edges
  <2> QED
    BY <2>1, <2>3, FS_CardinalityType
<1> HIDE DEF n, S
<1>6. Max(S) = n
  <2>1. n \in S /\ \A y \in S : n >= y
    BY <1>2, <1>3, <1>4, <1>5
  <2>2. Max(S) \in S /\ \A y \in S : Max(S) >= y
    BY <2>1 DEF Max
  <2>3. PICK m : m = Max(S)
    OBVIOUS
  <2>4. m \in Int /\ m >= n /\ n >= m
    BY <1>5, <2>1, <2>2, <2>3
  <2> QED
    BY <1>2, <2>3, <2>4
<1> QED
  BY <1>1, <1>6 DEF n

\* "maximum-cardinality matching", whatever the tracks and the observations.
THEOREM OwnersAreMost ==
  ASSUME NEW ts \in Seq(Track), NEW obs \in SUBSET Sizes, IsFiniteSet(obs)
  PROVE  MostMatched(ts, obs) = Cardinality({o \in obs : Owners(ts, obs)[o] # 0})
BY OwnersMatched, MatchedIsMost DEF Taken
-----------------------------------------------------------------------------
(* Order.                                                                  *)

\* less orders S.
Orders(less, S) ==
  /\ \A x \in S : <<x, x>> \notin less
  /\ \A x, y \in S : x = y \/ <<x, y>> \in less \/ <<y, x>> \in less
  /\ \A x, y, z \in S : <<x, y>> \in less /\ <<y, z>> \in less => <<x, z>> \in less

\* s enumerates S, without repetition and in the order of less.
Sorted(s, S, less) ==
  /\ s \in [1 .. Cardinality(S) -> S]
  /\ \A i, j \in 1 .. Cardinality(S) : i < j => <<s[i], s[j]>> \in less

\* A finite set that less orders is enumerated by InOrder.
LEMMA InOrderIsSorted ==
  ASSUME NEW S, IsFiniteSet(S), NEW less, Orders(less, S)
  PROVE  Sorted(InOrder(S, less), S, less)
<1> DEFINE N == Cardinality(S)
           below(x) == {y \in S : <<y, x>> \in less}
           rank == [x \in S |-> Cardinality(below(x)) + 1]
<1>1. N \in Nat
  BY FS_CardinalityType
<1>2. ASSUME NEW x \in S PROVE rank[x] \in 1 .. N
  <2>1. below(x) \in SUBSET (S \ {x})
    BY DEF Orders
  <2>2. IsFiniteSet(S \ {x}) /\ Cardinality(S \ {x}) = N - 1
    BY FS_RemoveElement
  <2>3. Cardinality(below(x)) \in Nat /\ Cardinality(below(x)) <= N - 1
    <3> HIDE DEF below, N
    <3> QED
      BY <2>1, <2>2, FS_Subset, FS_CardinalityType
  <2> HIDE DEF below, N
  <2> QED
    BY <1>1, <2>3
<1>3. ASSUME NEW x \in S, NEW y \in S, <<x, y>> \in less PROVE rank[x] < rank[y]
  <2>1. below(x) \in SUBSET (below(y) \ {x}) /\ x \in below(y)
    BY <1>3 DEF Orders
  <2>2. IsFiniteSet(below(y)) /\ IsFiniteSet(below(x))
    BY FS_Subset
  <2> HIDE DEF below
  <2>3. /\ Cardinality(below(y) \ {x}) = Cardinality(below(y)) - 1
        /\ IsFiniteSet(below(y) \ {x})
    BY <2>1, <2>2, FS_RemoveElement
  <2>4. Cardinality(below(x)) <= Cardinality(below(y) \ {x})
    BY <2>1, <2>3, FS_Subset
  <2>5. Cardinality(below(x)) \in Nat /\ Cardinality(below(y)) \in Nat
    BY <2>2, FS_CardinalityType
  <2> QED
    BY <2>3, <2>4, <2>5
<1> HIDE DEF rank, N
<1>4. rank \in [S -> 1 .. N]
  <2>1. rank = [x \in S |-> rank[x]]
    BY DEF rank
  <2> QED
    BY <1>2, <2>1
<1>5. \A x, y \in S : rank[x] = rank[y] => x = y
  <2> SUFFICES ASSUME NEW x \in S, NEW y \in S, rank[x] = rank[y], x # y PROVE FALSE
    OBVIOUS
  <2>1. <<x, y>> \in less \/ <<y, x>> \in less
    BY DEF Orders
  <2>2. rank[x] \in Int /\ rank[y] \in Int
    BY <1>2
  <2> QED
    BY <1>3, <2>1, <2>2
<1>6. rank \in Injection(S, 1 .. N)
  BY <1>4, <1>5 DEF Injection, IsInjective
<1>7. rank \in Surjection(S, 1 .. N)
  <2>1. IsFiniteSet(1 .. N) /\ Cardinality(1 .. N) = N
    BY <1>1, FS_Interval
  <2> QED
    BY <1>6, <2>1, FS_Injection DEF N
<1> DEFINE s == [k \in 1 .. N |-> CHOOSE x \in S : rank[x] = k]
<1>8. ASSUME NEW k \in 1 .. N PROVE s[k] \in S /\ rank[s[k]] = k
  <2>1. \E x \in S : rank[x] = k
    BY <1>7 DEF Surjection
  <2> QED
    BY <2>1
<1> HIDE DEF s
<1>9. ASSUME NEW i \in 1 .. N, NEW j \in 1 .. N, i < j PROVE <<s[i], s[j]>> \in less
  <2>1. s[i] \in S /\ s[j] \in S /\ rank[s[i]] = i /\ rank[s[j]] = j
    BY <1>8
  <2>2. s[i] # s[j]
    BY <2>1, <1>9
  <2>3. CASE <<s[j], s[i]>> \in less
    <3>1. rank[s[j]] < rank[s[i]]
      BY <2>1, <2>3, <1>3
    <3> QED
      BY <2>1, <3>1, <1>9
  <2> QED
    BY <2>1, <2>2, <2>3 DEF Orders
<1>10. s \in [1 .. N -> S]
  <2>1. s = [k \in 1 .. N |-> s[k]]
    BY DEF s
  <2> QED
    BY <1>8, <2>1
<1>11. Sorted(s, S, less)
  BY <1>9, <1>10 DEF Sorted, N
<1>12. \E x \in [1 .. Cardinality(S) -> S] :
         \A i, j \in 1 .. Cardinality(S) : i < j => <<x[i], x[j]>> \in less
  BY <1>11 DEF Sorted
<1> QED
  BY <1>12 DEF InOrder, Sorted

\* Indices are ordered by <.
LEMMA IndicesOrdered ==
  ASSUME NEW S \in SUBSET Nat
  PROVE  Orders({e \in S \X S : e[1] < e[2]}, S)
BY DEF Orders

\* Observations of different class or place are ordered.
LEMMA ObservationsOrdered ==
  ASSUME NEW S \in SUBSET Sizes,
         \A a, b \in S : a.class = b.class /\ a.pos = b.pos => a = b
  PROVE  Orders(PhysicalLess(S), S)
<1>1. \A x, y \in S : <<x, y>> \in PhysicalLess(S)
         <=> x.class < y.class \/ (x.class = y.class /\ x.pos < y.pos)
  BY DEF PhysicalLess
<1>2. \A x \in S : x.class \in Nat /\ x.pos \in Nat
  BY DEF Sizes
<1> QED
  BY <1>1, <1>2 DEF Orders

\* Of finitely many numbers one is the greatest.
LEMMA GreatestExists ==
  ASSUME NEW n \in Nat, NEW C \in SUBSET (1 .. n), C # {}, NEW f \in [C -> Nat]
  PROVE  \E i \in C : \A j \in C : f[j] <= f[i]
<1> DEFINE bounds == {m \in Nat : \A i \in C : f[i] <= m}
           S == {k \in Nat : \E m \in Nat : \A i \in C : i <= k => f[i] <= m}
<1>1. 0 \in S
  <2>1. \A i \in C : i <= 0 => f[i] <= 0
    OBVIOUS
  <2> QED
    BY <2>1
<1>2. ASSUME NEW k \in S PROVE k + 1 \in S
  <2>1. PICK m \in Nat : \A i \in C : i <= k => f[i] <= m
    OBVIOUS
  <2> DEFINE top == IF k + 1 \in C THEN m + f[k + 1] ELSE m
  <2>2. top \in Nat
    OBVIOUS
  <2>3. \A i \in C : i <= k + 1 => f[i] <= top
    <3> SUFFICES ASSUME NEW i \in C, i <= k + 1 PROVE f[i] <= top
      OBVIOUS
    <3>1. CASE i = k + 1
      BY <3>1
    <3>2. CASE i <= k
      <4>1. f[i] <= m /\ f[i] \in Nat
        BY <3>2, <2>1
      <4>2. m <= top
        OBVIOUS
      <4> QED
        BY <4>1, <4>2, <2>2
    <3>3. i \in Nat /\ k \in Nat
      OBVIOUS
    <3> QED
      BY <3>1, <3>2, <3>3
  <2> HIDE DEF top
  <2> QED
    BY <2>2, <2>3
<1>3. S = Nat
  <2>1. S \in SUBSET Nat
    OBVIOUS
  <2> HIDE DEF S
  <2> QED
    BY <1>1, <1>2, <2>1, SetInduction
<1>4. PICK m \in Nat : \A i \in C : i <= n => f[i] <= m
  BY <1>3
<1>5. m \in bounds
  BY <1>4
<1>6. PICK b \in bounds : \A c \in bounds : b <= c
  <2>1. bounds \in SUBSET Nat /\ bounds # {}
    BY <1>5
  <2> HIDE DEF bounds
  <2> QED
    BY <2>1, LeastExists
<1>7. \E i \in C : f[i] = b
  <2> SUFFICES ASSUME \A i \in C : f[i] # b PROVE FALSE
    OBVIOUS
  <2>1. \A i \in C : f[i] < b
    BY <1>6
  <2>2. b # 0
    <3>1. PICK i \in C : f[i] < b /\ f[i] \in Nat
      BY <2>1
    <3> QED
      BY <3>1
  <2>3. b - 1 \in bounds
    BY <2>1, <2>2, <1>6
  <2> QED
    BY <1>6, <2>3
<1> QED
  BY <1>6, <1>7
-----------------------------------------------------------------------------
(* The selector.                                                           *)

\* What is known of a track by itself.
Sound(t) ==
  /\ t.age <= LostAge
  /\ t.state = "TRACKING" => t.age = 0 /\ t.count >= MinDetect
  /\ t.state # "TEMP_LOST" => t.count <= t.streak
  /\ t.wins <= t.onTop

AllSound(ts) == \A i \in DOMAIN ts : Sound(ts[i])

OneChosen(ts) == \A i, j \in DOMAIN ts : ts[i].chosen /\ ts[j].chosen => i = j

\* The tracks that are locked were seen in this frame.
Seen(ts, obs) ==
  \A i \in Candidates(ts) : \E o \in obs : o.class = ts[i].class /\ o.pos = ts[i].pos

\* Of the locked tracks one is ranked first: Before orders the best of them.
LEMMA RankedIsCandidate ==
  ASSUME NEW ts \in Seq(Track), NEW obs \in SUBSET Sizes, Seen(ts, obs),
         Candidates(ts) # {}
  PROVE  Ranked(ts, obs) \in Candidates(ts)
<1> DEFINE C == Candidates(ts)
           conf(i) == (CHOOSE o \in obs : o.class = ts[i].class /\ o.pos = ts[i].pos).conf
           best == {i \in C : \A j \in C : conf(j) <= conf(i)}
           far(i) == Distance(ts[i].pos, Center)
           before(i, j) == \/ ts[i].chosen
                           \/ /\ ~ts[j].chosen
                              /\ far(i) < far(j) \/ (far(i) = far(j) /\ i < j)
<1>1. Ranked(ts, obs) = CHOOSE i \in best : \A j \in best \ {i} : before(i, j)
  BY DEF Ranked
<1>2. C \in SUBSET (1 .. Len(ts)) /\ Len(ts) \in Nat
  BY DEF Candidates
<1>3. \A i \in C : conf(i) \in Nat
  <2> TAKE i \in C
  <2> DEFINE o == CHOOSE o \in obs : o.class = ts[i].class /\ o.pos = ts[i].pos
  <2>1. o \in obs
    BY DEF Seen
  <2> QED
    BY <2>1 DEF Sizes
<1>4. \A i \in C : far(i) \in Nat
  <2> TAKE i \in C
  <2>1. ts[i] \in Track
    BY <1>2
  <2>2. ts[i].pos \in Nat
    BY <2>1 DEF Track
  <2>3. Center \in Nat
    BY TracksAssumption
  <2> QED
    BY <2>2, <2>3, DistanceNat
<1> HIDE DEF conf, C, far
<1>5. best # {}
  <2> DEFINE f == [i \in C |-> conf(i)]
  <2>1. f \in [C -> Nat] /\ C # {}
    BY <1>3 DEF C
  <2> HIDE DEF f
  <2>2. PICK i \in C : \A j \in C : f[j] <= f[i]
    BY <1>2, <2>1, GreatestExists
  <2> QED
    BY <2>2 DEF f
<1>6. best \in SUBSET C
  OBVIOUS
<1> HIDE DEF best
<1>7. \E i \in best : \A j \in best \ {i} : before(i, j)
  <2>1. CASE \E i \in best : ts[i].chosen
    BY <2>1
  <2>2. CASE \A i \in best : ~ts[i].chosen
    <3>1. PICK d \in {far(i) : i \in best} : \A e \in {far(i) : i \in best} : d <= e
      <4>1. {far(i) : i \in best} \in SUBSET Nat /\ {far(i) : i \in best} # {}
        BY <1>4, <1>5, <1>6
      <4> QED
        BY <4>1, LeastExists
    <3> DEFINE near == {i \in best : far(i) = d}
    <3>2. PICK i \in near : \A j \in near : i <= j
      <4>1. near \in SUBSET Nat /\ near # {}
        BY <1>2, <1>6, <3>1
      <4> HIDE DEF near
      <4> QED
        BY <4>1, LeastExists
    <3>3. ASSUME NEW j \in best \ {i}
          PROVE  far(i) < far(j) \/ (far(i) = far(j) /\ i < j)
      <4>1. d <= far(j) /\ far(i) = d /\ far(j) \in Nat /\ d \in Nat
        BY <1>4, <1>6, <3>1, <3>2
      <4>2. i \in Nat /\ j \in Nat /\ i # j
        BY <1>2, <1>6, <3>2
      <4>3. CASE far(j) = d
        <5>1. i <= j
          BY <3>2, <4>3
        <5> QED
          BY <4>1, <4>2, <4>3, <5>1
      <4> QED
        BY <4>1, <4>3
    <3>4. \A j \in best \ {i} : before(i, j)
      BY <2>2, <3>3
    <3> QED
      BY <3>2, <3>4
  <2> QED
    BY <2>1, <2>2
<1> HIDE DEF before
<1>8. Ranked(ts, obs) \in best
  BY <1>1, <1>7
<1> QED
  BY <1>6, <1>8 DEF C

\* What the selector leaves: sel is chosen, pending has its wins, ranked won.
Left(ts, next, sel, pending, wins, ranked) ==
  /\ next \in Seq(Track) /\ Len(next) = Len(ts)
  /\ \A i \in DOMAIN ts :
       /\ next[i].state = ts[i].state /\ next[i].count = ts[i].count
       /\ next[i].age = ts[i].age /\ next[i].streak = ts[i].streak
       /\ next[i].chosen <=> i = sel
       /\ next[i].wins = IF i = pending THEN wins ELSE 0
       /\ next[i].was <=> ts[i].chosen
       /\ next[i].onTop = IF i = ranked THEN Capped(ts[i].onTop + 1, DebounceFrames) ELSE 0

\* What select leaves, with its history.
LEMMA RecordedIs ==
  ASSUME NEW ts \in Seq(Track), NEW sel, NEW pending, NEW wins \in Nat, NEW ranked
  PROVE  Left(ts, Recorded(ts, Chosen(ts, sel, pending, wins), ranked),
              sel, pending, wins, ranked)
<1> DEFINE after == Chosen(ts, sel, pending, wins)
           next == Recorded(ts, after, ranked)
           top(i) == IF i = ranked THEN Capped(ts[i].onTop + 1, DebounceFrames) ELSE 0
<1>1. ASSUME NEW i \in DOMAIN ts
      PROVE  /\ next[i] \in Track
             /\ next[i].state = ts[i].state /\ next[i].count = ts[i].count
             /\ next[i].age = ts[i].age /\ next[i].streak = ts[i].streak
             /\ next[i].chosen = (i = sel)
             /\ next[i].wins = IF i = pending THEN wins ELSE 0
             /\ next[i].was = ts[i].chosen
             /\ next[i].onTop = top(i)
  <2>1. ts[i] \in Track
    OBVIOUS
  <2>2. after[i] = [ts[i] EXCEPT !.chosen = (i = sel), !.wins = IF i = pending THEN wins ELSE 0]
    BY DEF Chosen
  <2>3. PICK c \in BOOLEAN : c = (i = sel)
    OBVIOUS
  <2>4. PICK w \in Nat : w = IF i = pending THEN wins ELSE 0
    OBVIOUS
  <2>5. /\ after[i] \in Track /\ after[i].chosen = c /\ after[i].wins = w
        /\ after[i].state = ts[i].state /\ after[i].count = ts[i].count
        /\ after[i].age = ts[i].age /\ after[i].streak = ts[i].streak
        /\ after[i].onTop = ts[i].onTop
    <3>1. after[i] = [ts[i] EXCEPT !.chosen = c, !.wins = w]
      BY <2>2, <2>3, <2>4
    <3> HIDE DEF after
    <3> QED
      BY <2>1, <3>1 DEF Track
  <2>6. PICK n \in 0 .. DebounceFrames : n = top(i)
    BY <2>1, TracksAssumption DEF Track, Capped
  <2>7. PICK p \in BOOLEAN : p = ts[i].chosen
    BY <2>1 DEF Track
  <2>8. next[i] = [after[i] EXCEPT !.was = p, !.onTop = n]
    BY <2>5, <2>6, <2>7 DEF Recorded
  <2> HIDE DEF next, after, top
  <2>9. /\ next[i] \in Track /\ next[i].was = p /\ next[i].onTop = n
        /\ next[i].chosen = c /\ next[i].wins = w
        /\ next[i].state = ts[i].state /\ next[i].count = ts[i].count
        /\ next[i].age = ts[i].age /\ next[i].streak = ts[i].streak
    BY <2>5, <2>8 DEF Track
  <2> QED
    BY <2>3, <2>4, <2>6, <2>7, <2>9
<1>2. next = [i \in 1 .. Len(ts) |-> next[i]] /\ Len(ts) \in Nat
  BY DEF Recorded
<1> HIDE DEF next
<1>3. next \in [1 .. Len(ts) -> Track]
  <2>1. \A i \in 1 .. Len(ts) : next[i] \in Track
    BY <1>1
  <2> QED
    BY <1>2, <2>1
<1>4. next \in Seq(Track) /\ Len(next) = Len(ts)
  BY <1>2, <1>3, FunctionIsSequence
<1> QED
  BY <1>1, <1>4 DEF Left, next

\* Only a track that is locked is chosen; a switch away from one is debounced.
Locked(ts) == \A i \in DOMAIN ts : ts[i].chosen => ts[i].state = "TRACKING"

DebouncedIn(ts) ==
  \A i, j \in DOMAIN ts :
    ts[i].was /\ ts[i].state = "TRACKING" /\ ts[j].chosen /\ i # j
      => ts[j].onTop = DebounceFrames

Selectable(ts) == ts \in Seq(Track) /\ AllSound(ts) /\ OneChosen(ts)

TracksOK(ts) == Selectable(ts) /\ Locked(ts) /\ DebouncedIn(ts)

\* sel may be chosen when it is locked, and instead of a target that is still
\* there when it has won often enough.
LEMMA LeftIsOK ==
  ASSUME NEW ts, Selectable(ts),
         NEW next, NEW sel, NEW pending, NEW wins \in Nat, NEW ranked,
         Left(ts, next, sel, pending, wins, ranked),
         sel \in DOMAIN ts => sel \in Candidates(ts),
         pending \in DOMAIN ts =>
           pending = ranked /\ wins <= Capped(ts[pending].onTop + 1, DebounceFrames),
         \A i \in Candidates(ts) : ts[i].chosen /\ sel \in DOMAIN ts /\ sel # i
           => sel = ranked /\ Capped(ts[sel].onTop + 1, DebounceFrames) = DebounceFrames
  PROVE  TracksOK(next)
<1>1. /\ ts \in Seq(Track) /\ next \in Seq(Track) /\ DOMAIN next = DOMAIN ts
      /\ \A i \in DOMAIN ts : ts[i] \in Track /\ next[i] \in Track /\ Sound(ts[i])
  BY DEF Selectable, Left, AllSound
<1>2. \A i \in DOMAIN ts :
        /\ next[i].state = ts[i].state /\ next[i].count = ts[i].count
        /\ next[i].age = ts[i].age /\ next[i].streak = ts[i].streak
        /\ next[i].chosen <=> i = sel
        /\ next[i].wins = IF i = pending THEN wins ELSE 0
        /\ next[i].was <=> ts[i].chosen
        /\ next[i].onTop = IF i = ranked THEN Capped(ts[i].onTop + 1, DebounceFrames) ELSE 0
  BY DEF Left
<1>3. ASSUME NEW i \in DOMAIN ts PROVE Sound(next[i])
  <2>1. next[i].wins <= next[i].onTop
    <3>1. CASE i = pending
      BY <1>2, <3>1
    <3>2. CASE i # pending
      <4>1. next[i].onTop \in 0 .. DebounceFrames
        BY <1>1 DEF Track
      <4> QED
        BY <1>2, <3>2, <4>1, TracksAssumption
    <3> QED
      BY <3>1, <3>2
  <2> QED
    BY <1>1, <1>2, <2>1 DEF Sound
<1>4. OneChosen(next) /\ Locked(next)
  BY <1>1, <1>2 DEF OneChosen, Locked, Candidates
<1>5. DebouncedIn(next)
  <2> SUFFICES ASSUME NEW i \in DOMAIN ts, NEW j \in DOMAIN ts,
                      next[i].was, next[i].state = "TRACKING", next[j].chosen, i # j
               PROVE  next[j].onTop = DebounceFrames
    BY <1>1 DEF DebouncedIn
  <2>1. i \in Candidates(ts) /\ ts[i].chosen /\ j = sel
    BY <1>2 DEF Candidates
  <2>2. sel = ranked /\ Capped(ts[sel].onTop + 1, DebounceFrames) = DebounceFrames
    BY <2>1
  <2> QED
    BY <1>2, <2>1, <2>2
<1> QED
  BY <1>1, <1>3, <1>4, <1>5 DEF TracksOK, Selectable, AllSound

\* select keeps at most one track chosen, a locked one, and debounces.
LEMMA SelectedIsOK ==
  ASSUME NEW ts, Selectable(ts), NEW obs \in SUBSET Sizes, Seen(ts, obs)
  PROVE  TracksOK(Selected(ts, obs)) /\ Len(Selected(ts, obs)) = Len(ts)
<1>1. ts \in Seq(Track) /\ DOMAIN ts = 1 .. Len(ts) /\ Len(ts) \in Nat
  BY DEF Selectable
<1>2. \A i \in DOMAIN ts : ts[i].wins \in Nat /\ ts[i].onTop \in Nat /\ ts[i].wins <= ts[i].onTop
  <2> TAKE i \in DOMAIN ts
  <2>1. ts[i] \in Track /\ Sound(ts[i])
    BY <1>1 DEF Selectable, AllSound
  <2> QED
    BY <2>1 DEF Track, Sound
<1>3. Candidates(ts) \subseteq DOMAIN ts /\ 0 \notin DOMAIN ts
  BY <1>1 DEF Candidates
<1>4. DebounceFrames \in Nat \ {0}
  BY TracksAssumption
<1>5. CASE Candidates(ts) = {}
  <2>1. Selected(ts, obs) = Recorded(ts, Chosen(ts, 0, 0, 0), 0)
    BY <1>5 DEF Selected
  <2>2. Left(ts, Selected(ts, obs), 0, 0, 0, 0)
    BY <1>1, <2>1, RecordedIs
  <2>3. TracksOK(Selected(ts, obs))
    BY <1>3, <2>2, LeftIsOK
  <2> QED
    BY <2>2, <2>3 DEF Left
<1>6. CASE Candidates(ts) # {}
  <2> DEFINE ranked == Ranked(ts, obs)
             previous == {i \in Candidates(ts) : ts[i].chosen}
             old == CHOOSE i \in previous : TRUE
             wins == ts[ranked].wins + 1
  <2>1. ranked \in Candidates(ts)
    BY <1>1, <1>6, RankedIsCandidate
  <2>2. Selected(ts, obs) = Recorded(ts,
            CASE previous = {} -> Chosen(ts, ranked, 0, 0)
              [] previous = {ranked} -> Kept(ts, ranked)
              [] OTHER -> Debounced(ts, ranked, old),
            ranked)
    BY <1>6 DEF Selected
  <2> HIDE DEF ranked
  <2>3. \A i, j \in previous : i = j
    BY <1>3 DEF Selectable, OneChosen
  <2>4. wins \in Nat /\ wins <= ts[ranked].onTop + 1
    BY <1>2, <1>3, <2>1
  <2>5. CASE previous = {}
    <3>1. Selected(ts, obs) = Recorded(ts, Chosen(ts, ranked, 0, 0), ranked)
      BY <2>2, <2>5
    <3>2. Left(ts, Selected(ts, obs), ranked, 0, 0, ranked)
      BY <1>1, <3>1, RecordedIs
    <3>3. \A i \in Candidates(ts) : ~ts[i].chosen
      BY <2>5
    <3>4. TracksOK(Selected(ts, obs))
      BY <1>3, <2>1, <3>2, <3>3, LeftIsOK
    <3> QED
      BY <3>2, <3>4 DEF Left
  <2>6. CASE previous = {ranked}
    <3>1. Selected(ts, obs) = Recorded(ts, Chosen(ts, ranked, 0, 0), ranked)
      BY <2>2, <2>6 DEF Kept
    <3>2. Left(ts, Selected(ts, obs), ranked, 0, 0, ranked)
      BY <1>1, <3>1, RecordedIs
    <3>3. \A i \in Candidates(ts) : ts[i].chosen => i = ranked
      BY <2>6
    <3>4. TracksOK(Selected(ts, obs))
      BY <1>3, <2>1, <3>2, <3>3, LeftIsOK
    <3> QED
      BY <3>2, <3>4 DEF Left
  <2>7. CASE previous # {} /\ previous # {ranked}
    <3>1. old \in previous
      BY <2>7
    <3> HIDE DEF old
    <3>2. old \in Candidates(ts) /\ \A i \in Candidates(ts) : ts[i].chosen => i = old
      BY <2>3, <3>1
    <3>3. Selected(ts, obs) = Recorded(ts, Debounced(ts, ranked, old), ranked)
      BY <2>2, <2>7
    <3> HIDE DEF previous
    <3>4. CASE wins >= DebounceFrames
      <4>1. Selected(ts, obs) = Recorded(ts, Chosen(ts, ranked, 0, 0), ranked)
        BY <3>3, <3>4 DEF Debounced
      <4>2. Left(ts, Selected(ts, obs), ranked, 0, 0, ranked)
        BY <1>1, <4>1, RecordedIs
      <4>3. Capped(ts[ranked].onTop + 1, DebounceFrames) = DebounceFrames
        <5>1. ts[ranked].onTop \in Nat
          BY <1>2, <1>3, <2>1
        <5> QED
          BY <1>4, <2>4, <3>4, <5>1 DEF Capped
      <4>4. TracksOK(Selected(ts, obs))
        BY <1>3, <2>1, <4>2, <4>3, LeftIsOK
      <4> QED
        BY <4>2, <4>4 DEF Left
    <3>5. CASE ~(wins >= DebounceFrames)
      <4>1. Selected(ts, obs) = Recorded(ts, Chosen(ts, old, ranked, wins), ranked)
        BY <3>3, <3>5 DEF Debounced
      <4>2. Left(ts, Selected(ts, obs), old, ranked, wins, ranked)
        BY <1>1, <2>4, <4>1, RecordedIs
      <4>3. wins <= Capped(ts[ranked].onTop + 1, DebounceFrames)
        <5>1. ts[ranked].onTop \in Nat
          BY <1>2, <1>3, <2>1
        <5> QED
          BY <1>4, <2>4, <3>5, <5>1 DEF Capped
      <4> HIDE DEF wins
      <4>4. TracksOK(Selected(ts, obs))
        BY <2>4, <3>2, <4>2, <4>3, LeftIsOK
      <4> QED
        BY <4>2, <4>4 DEF Left
    <3> QED
      BY <3>4, <3>5
  <2> QED
    BY <2>5, <2>6, <2>7
<1> QED
  BY <1>5, <1>6
-----------------------------------------------------------------------------
(* The tracker.                                                            *)

\* What is known of a track that is not lost yet when a frame comes.
Standing(ts) ==
  /\ ts \in Seq(Track) /\ OneChosen(ts)
  /\ \A i \in DOMAIN ts :
       /\ ts[i].age < LostAge
       /\ ts[i].state # "TEMP_LOST" => ts[i].count <= ts[i].streak
       /\ ts[i].wins <= ts[i].onTop

\* The tracks that are not lost before a frame, in order, are as they were.
LEMMA CurrentIsStanding ==
  ASSUME Selectable(tracks), NEW dt \in Nat
  PROVE  Standing(Current(dt))
<1> DEFINE S == {i \in DOMAIN tracks : tracks[i].age + dt < LostAge}
           less == {e \in S \X S : e[1] < e[2]}
           order == InOrder(S, less)
           n == Cardinality(S)
           ts == [k \in 1 .. n |-> [tracks[order[k]] EXCEPT !.age = @ + dt]]
<1>1. /\ tracks \in Seq(Track) /\ DOMAIN tracks = 1 .. Len(tracks) /\ Len(tracks) \in Nat
      /\ \A i \in DOMAIN tracks : tracks[i] \in Track /\ Sound(tracks[i])
  BY DEF Selectable, AllSound
<1>2. S \in SUBSET Nat /\ S \in SUBSET DOMAIN tracks
  BY <1>1
<1>3. IsFiniteSet(S) /\ n \in Nat
  <2>1. IsFiniteSet(DOMAIN tracks)
    BY <1>1, FS_Interval
  <2> HIDE DEF S
  <2> QED
    BY <1>2, <2>1, FS_Subset, FS_CardinalityType
<1>4. Current(dt) = ts
  BY DEF Current
<1>5. \A i \in S : tracks[i].age + dt < LostAge
  OBVIOUS
<1> HIDE DEF S
<1>6. Orders(less, S)
  BY <1>2, IndicesOrdered
<1>7. Sorted(order, S, less)
  BY <1>3, <1>6, InOrderIsSorted
<1> HIDE DEF order
<1>8. /\ \A k \in 1 .. n : order[k] \in S
      /\ \A k, l \in 1 .. n : order[k] = order[l] => k = l
  <2>1. \A k \in 1 .. n : order[k] \in S
    BY <1>7 DEF Sorted
  <2>2. \A k, l \in 1 .. n : k < l => order[k] # order[l]
    <3> HIDE DEF less
    <3> QED
      BY <1>6, <1>7, <2>1 DEF Sorted, Orders
  <2> QED
    BY <1>3, <2>1, <2>2
<1>9. ASSUME NEW k \in 1 .. n
      PROVE  /\ ts[k] \in Track /\ ts[k].age < LostAge
             /\ ts[k].state = tracks[order[k]].state /\ ts[k].count = tracks[order[k]].count
             /\ ts[k].streak = tracks[order[k]].streak /\ ts[k].wins = tracks[order[k]].wins
             /\ ts[k].onTop = tracks[order[k]].onTop /\ ts[k].chosen = tracks[order[k]].chosen
  <2>1. order[k] \in S /\ tracks[order[k]] \in Track /\ tracks[order[k]].age + dt < LostAge
    BY <1>1, <1>2, <1>5, <1>8
  <2>2. ts[k] = [tracks[order[k]] EXCEPT !.age = @ + dt]
    OBVIOUS
  <2> HIDE DEF ts
  <2> QED
    BY <2>1, <2>2 DEF Track
<1> HIDE DEF ts
<1>10. ts \in Seq(Track) /\ DOMAIN ts = 1 .. n
  <2>1. ts = [k \in 1 .. n |-> ts[k]]
    BY DEF ts
  <2>2. ts \in [1 .. n -> Track]
    BY <1>9, <2>1
  <2> QED
    BY <1>3, <2>2, FunctionIsSequence
<1>11. OneChosen(ts)
  <2>1. \A k \in 1 .. n : order[k] \in DOMAIN tracks
    BY <1>2, <1>8
  <2> QED
    BY <1>8, <1>9, <1>10, <2>1 DEF OneChosen, Selectable
<1>12. ASSUME NEW k \in 1 .. n
       PROVE  /\ ts[k].state # "TEMP_LOST" => ts[k].count <= ts[k].streak
              /\ ts[k].wins <= ts[k].onTop
  <2>1. Sound(tracks[order[k]])
    BY <1>1, <1>2, <1>8
  <2> QED
    BY <1>9, <2>1 DEF Sound
<1> QED
  BY <1>4, <1>9, <1>10, <1>11, <1>12 DEF Standing

\* A track that is found is sound, unless it was not before.
LEMMA FoundIsSound ==
  ASSUME NEW t \in Track, t.state # "TEMP_LOST" => t.count <= t.streak, t.wins <= t.onTop,
         NEW o \in Sizes
  PROVE  /\ Found(t, o) \in Track /\ Sound(Found(t, o))
         /\ Found(t, o).chosen = t.chosen
         /\ Found(t, o).class = t.class /\ Found(t, o).pos = o.pos
<1>1. MinDetect \in Nat \ {0} /\ LostAge \in Nat
  BY TracksAssumption
<1> DEFINE c == IF t.state = "TEMP_LOST" THEN 1 ELSE Capped(t.count + 1, MinDetect)
           s == Capped(t.streak + 1, MinDetect)
<1>2. /\ t.count \in 0 .. MinDetect /\ t.streak \in 0 .. MinDetect /\ o.pos \in Nat
      /\ t.wins \in Nat /\ t.onTop \in Nat
  BY DEF Track, Sizes
<1>3. c \in 0 .. MinDetect /\ s \in 0 .. MinDetect /\ c <= s
  BY <1>1, <1>2 DEF Capped
<1>4. PICK st \in {"DETECTING", "TRACKING", "TEMP_LOST"} :
        st = Confirmed(c) /\ (st = "TRACKING" => c >= MinDetect)
  BY DEF Confirmed
<1>5. Found(t, o) = [t EXCEPT !.pos = o.pos, !.count = c, !.state = st, !.age = 0, !.streak = s]
  BY <1>4 DEF Found
<1> HIDE DEF c, s
<1> DEFINE f == [t EXCEPT !.pos = o.pos, !.count = c, !.state = st]
<1>6. /\ f \in Track /\ f.chosen = t.chosen /\ f.class = t.class /\ f.pos = o.pos
      /\ f.count = c /\ f.state = st /\ f.wins = t.wins /\ f.onTop = t.onTop
  BY <1>2, <1>3 DEF Track
<1>7. Found(t, o) = [f EXCEPT !.age = 0, !.streak = s]
  BY <1>5 DEF Track
<1> HIDE DEF f
<1> DEFINE g == [f EXCEPT !.age = 0, !.streak = s]
<1>8. g \in Track
  BY <1>3, <1>6 DEF Track
<1>9. /\ g.chosen = f.chosen /\ g.class = f.class /\ g.pos = f.pos /\ g.count = f.count
       /\ g.state = f.state /\ g.age = 0 /\ g.streak = s /\ g.wins = f.wins /\ g.onTop = f.onTop
  BY <1>6 DEF Track
<1> HIDE DEF g
<1>10. /\ Found(t, o) \in Track /\ Found(t, o).chosen = t.chosen
      /\ Found(t, o).class = t.class /\ Found(t, o).pos = o.pos
      /\ Found(t, o).count = c /\ Found(t, o).state = st /\ Found(t, o).age = 0
      /\ Found(t, o).streak = s /\ Found(t, o).wins = t.wins /\ Found(t, o).onTop = t.onTop
  BY <1>6, <1>7, <1>8, <1>9 DEF g
<1>11. Sound(Found(t, o))
  BY <1>1, <1>3, <1>4, <1>10 DEF Sound
<1> QED
  BY <1>10, <1>11

\* So is one that is missed.
LEMMA MissedIsSound ==
  ASSUME NEW t \in Track, t.age < LostAge, t.wins <= t.onTop
  PROVE  /\ Missed(t) \in Track /\ Sound(Missed(t))
         /\ Missed(t).chosen = t.chosen /\ Missed(t).state = "TEMP_LOST"
<1>1. 0 \in 0 .. MinDetect /\ LostAge \in Nat
  BY TracksAssumption
<1>2. Missed(t) = [t EXCEPT !.state = "TEMP_LOST", !.streak = 0]
  BY DEF Missed
<1>3. /\ Missed(t) \in Track /\ Missed(t).chosen = t.chosen /\ Missed(t).state = "TEMP_LOST"
      /\ Missed(t).age = t.age /\ Missed(t).wins = t.wins /\ Missed(t).onTop = t.onTop
  BY <1>1, <1>2 DEF Track
<1>4. t.age \in Nat
  BY DEF Track
<1> QED
  BY <1>1, <1>3, <1>4 DEF Sound

\* And a new one.
LEMMA NewIsSound ==
  ASSUME NEW o \in Sizes
  PROVE  /\ New(o) \in Track /\ Sound(New(o)) /\ New(o).chosen = FALSE
         /\ New(o).class = o.class /\ New(o).pos = o.pos
<1>1. MinDetect \in Nat \ {0} /\ LostAge \in Nat /\ DebounceFrames \in Nat \ {0}
  BY TracksAssumption
<1>2. Confirmed(1) \in {"DETECTING", "TRACKING", "TEMP_LOST"} /\ (Confirmed(1) = "TRACKING" => 1 >= MinDetect)
  BY DEF Confirmed
<1>3. PICK no \in BOOLEAN : no = FALSE
  OBVIOUS
<1>4. New(o) = [class |-> o.class, pos |-> o.pos, state |-> Confirmed(1), count |-> 1,
                age |-> 0, streak |-> 1, chosen |-> no, wins |-> 0, onTop |-> 0, was |-> no]
  BY <1>3 DEF New
<1>5. /\ New(o) \in Track
      /\ New(o).class = o.class /\ New(o).pos = o.pos /\ New(o).chosen = no
      /\ New(o).count = 1 /\ New(o).state = Confirmed(1) /\ New(o).age = 0
      /\ New(o).streak = 1 /\ New(o).wins = 0 /\ New(o).onTop = 0
  BY <1>1, <1>2, <1>4 DEF Track, Sizes
<1>6. Sound(New(o))
  BY <1>1, <1>2, <1>5 DEF Sound
<1> QED
  BY <1>3, <1>5, <1>6

\* A frame is a set of observations that its class and place tell apart.
LEMMA FramesAre ==
  ASSUME NEW obs \in Frames
  PROVE  /\ obs \in SUBSET Sizes /\ IsFiniteSet(obs)
         /\ \A a, b \in obs : a.class = b.class /\ a.pos = b.pos => a = b
BY TracksAssumption DEF Frames, Sizes

\* The new tracks are of observations of this frame.
LEMMA CapturedIs ==
  ASSUME NEW ts, NEW obs \in Frames, NEW w
  PROVE  /\ Captured(ts, obs, w) \in Seq(Track)
         /\ \A k \in DOMAIN Captured(ts, obs, w) :
              \E o \in obs : Captured(ts, obs, w)[k] = New(o)
<1> DEFINE S == {o \in obs : w[o] = 0 /\ \A i \in DOMAIN ts : ts[i].class # o.class}
           order == InOrder(S, PhysicalLess(S))
           n == Cardinality(S)
           new == [k \in 1 .. n |-> New(order[k])]
<1>1. Captured(ts, obs, w) = new
  BY DEF Captured
<1>2. S \in SUBSET obs
  OBVIOUS
<1> HIDE DEF S
<1>3. IsFiniteSet(S) /\ n \in Nat
  BY <1>2, FramesAre, FS_Subset, FS_CardinalityType
<1>4. Orders(PhysicalLess(S), S)
  <2>1. S \in SUBSET Sizes /\ \A a, b \in S : a.class = b.class /\ a.pos = b.pos => a = b
    BY <1>2, FramesAre
  <2> QED
    BY <2>1, ObservationsOrdered
<1>5. \A k \in 1 .. n : order[k] \in S
  <2>1. Sorted(order, S, PhysicalLess(S))
    BY <1>3, <1>4, InOrderIsSorted
  <2> HIDE DEF order
  <2> QED
    BY <2>1 DEF Sorted
<1> HIDE DEF order
<1>6. \A k \in 1 .. n : order[k] \in obs /\ order[k] \in Sizes
  BY <1>2, <1>5, FramesAre
<1>7. new \in [1 .. n -> Track]
  <2>1. \A k \in 1 .. n : New(order[k]) \in Track
    BY <1>6, NewIsSound
  <2> QED
    BY <2>1
<1>8. new \in Seq(Track) /\ DOMAIN new = 1 .. n
  <2> HIDE DEF new, n
  <2> QED
    BY <1>3, <1>7, FunctionIsSequence
<1> QED
  BY <1>1, <1>6, <1>8

\* After update all tracks are sound, and those that are locked were seen.
LEMMA UpdatedIsSelectable ==
  ASSUME NEW ts, Standing(ts), NEW obs \in Frames, NEW w, Matched(ts, obs, Len(ts), w)
  PROVE  Selectable(Updated(ts, obs, w)) /\ Seen(Updated(ts, obs, w), obs)
<1> DEFINE found(i) == CHOOSE o \in obs : w[o] = i
           old == [i \in DOMAIN ts |->
                     IF \E o \in obs : w[o] = i THEN Found(ts[i], found(i)) ELSE Missed(ts[i])]
           new == Captured(ts, obs, w)
           next == old \o new
           n == Len(ts)
<1>1. ts \in Seq(Track) /\ DOMAIN ts = 1 .. n /\ n \in Nat
  BY DEF Standing
<1>2. Updated(ts, obs, w) = next
  BY DEF Updated
<1>3. obs \in SUBSET Sizes
  BY FramesAre
<1>4. ASSUME NEW i \in 1 .. n
      PROVE  /\ old[i] \in Track /\ Sound(old[i]) /\ old[i].chosen = ts[i].chosen
             /\ old[i].state = "TRACKING"
                  => \E o \in obs : o.class = old[i].class /\ o.pos = old[i].pos
  <2>1. /\ ts[i] \in Track /\ ts[i].age < LostAge /\ ts[i].wins <= ts[i].onTop
        /\ ts[i].state # "TEMP_LOST" => ts[i].count <= ts[i].streak
    BY <1>1 DEF Standing
  <2>2. CASE \E o \in obs : w[o] = i
    <3>1. old[i] = Found(ts[i], found(i))
      BY <1>1, <2>2
    <3>2. found(i) \in obs /\ w[found(i)] = i
      BY <2>2
    <3> HIDE DEF old, found
    <3>3. Feasible(ts[i], found(i))
      <4>1. i # 0
        BY <1>1
      <4> QED
        BY <3>2, <4>1 DEF Matched, Fits
    <3>4. ts[i].class = found(i).class
      BY <3>3 DEF Feasible
    <3>5. /\ old[i] \in Track /\ Sound(old[i]) /\ old[i].chosen = ts[i].chosen
          /\ old[i].class = ts[i].class /\ old[i].pos = found(i).pos
      BY <1>3, <2>1, <3>1, <3>2, FoundIsSound
    <3> QED
      BY <3>2, <3>4, <3>5
  <2>3. CASE ~(\E o \in obs : w[o] = i)
    <3>1. old[i] = Missed(ts[i])
      BY <1>1, <2>3
    <3> HIDE DEF old
    <3> QED
      BY <2>1, <3>1, MissedIsSound
  <2> QED
    BY <2>2, <2>3
<1>5. old \in Seq(Track) /\ Len(old) = n /\ DOMAIN old = 1 .. n
  <2>1. old = [i \in 1 .. n |-> old[i]]
    BY <1>1
  <2> HIDE DEF old
  <2>2. old \in [1 .. n -> Track]
    BY <1>4, <2>1
  <2> HIDE DEF n
  <2> QED
    BY <1>1, <2>2, FunctionIsSequence
<1>6. new \in Seq(Track) /\ \A k \in DOMAIN new : \E o \in obs : new[k] = New(o)
  BY CapturedIs
<1>7. ASSUME NEW k \in DOMAIN new
      PROVE  /\ new[k] \in Track /\ Sound(new[k]) /\ new[k].chosen = FALSE
             /\ \E o \in obs : o.class = new[k].class /\ o.pos = new[k].pos
  <2>1. PICK o \in obs : new[k] = New(o)
    BY <1>6
  <2> HIDE DEF new
  <2> QED
    BY <1>3, <2>1, NewIsSound
<1> HIDE DEF old, new
<1>8. next \in Seq(Track) /\ Len(next) = n + Len(new) /\ DOMAIN next = 1 .. n + Len(new)
  BY <1>1, <1>5, <1>6
<1>9. ASSUME NEW i \in DOMAIN next
      PROVE  \/ i \in 1 .. n /\ next[i] = old[i]
             \/ i \notin 1 .. n /\ \E k \in DOMAIN new : next[i] = new[k]
  <2>1. Len(new) \in Nat /\ DOMAIN new = 1 .. Len(new)
    BY <1>6
  <2>2. CASE i \in 1 .. n
    BY <1>1, <1>5, <1>6, <1>8, <2>2
  <2>3. CASE i \notin 1 .. n
    <3>1. i - n \in DOMAIN new /\ next[i] = new[i - n]
      BY <1>1, <1>5, <1>6, <1>8, <2>1, <2>3
    <3> QED
      BY <2>3, <3>1
  <2> QED
    BY <2>2, <2>3
<1> HIDE DEF next
<1>10. AllSound(next)
  BY <1>4, <1>7, <1>9 DEF AllSound
<1>11. OneChosen(next)
  <2>1. \A i \in DOMAIN next : next[i].chosen => i \in 1 .. n /\ ts[i].chosen
    BY <1>4, <1>7, <1>9
  <2> QED
    BY <1>1, <2>1 DEF OneChosen, Standing
<1>12. Seen(next, obs)
  <2> SUFFICES ASSUME NEW i \in DOMAIN next, next[i].state = "TRACKING"
               PROVE  \E o \in obs : o.class = next[i].class /\ o.pos = next[i].pos
    BY DEF Seen, Candidates
  <2>1. CASE i \in 1 .. n /\ next[i] = old[i]
    BY <1>4, <2>1
  <2>2. CASE \E k \in DOMAIN new : next[i] = new[k]
    BY <1>7, <2>2
  <2> QED
    BY <1>9, <2>1, <2>2
<1> QED
  BY <1>2, <1>8, <1>10, <1>11, <1>12 DEF Selectable
-----------------------------------------------------------------------------
(* The steps.                                                              *)

\* The invariant of the tracker and the selector together.
TracksInv ==
  /\ TracksOK(tracks) /\ Len(tracks) <= MaxTracks
  /\ stranded = 0

\* A frame: whatever is observed, tracked and chosen.
LEMMA FrameStep ==
  ASSUME TracksInv, NEW obs \in Frames, NEW dt \in Nat, Frame(obs, dt)
  PROVE  TracksInv'
<1> DEFINE ts == Current(dt)
           owner == Owners(ts, obs)
           updated == Updated(ts, obs, owner)
<1>1. /\ Len(updated) <= MaxTracks /\ tracks' = Selected(updated, obs)
      /\ stranded' = MostMatched(ts, obs) - Cardinality({o \in obs : owner[o] # 0})
  BY DEF Frame
<1>2. Standing(ts)
  BY CurrentIsStanding DEF TracksInv, TracksOK
<1>3. obs \in SUBSET Sizes /\ IsFiniteSet(obs)
  BY FramesAre
<1> HIDE DEF ts
<1>4. ts \in Seq(Track)
  BY <1>2 DEF Standing
<1>5. Matched(ts, obs, Len(ts), owner)
  BY <1>3, <1>4, OwnersMatched
<1>6. MostMatched(ts, obs) = Cardinality({o \in obs : owner[o] # 0})
  BY <1>3, <1>4, OwnersAreMost
<1> HIDE DEF owner
<1>7. Cardinality({o \in obs : owner[o] # 0}) \in Nat
  BY <1>3, FS_Subset, FS_CardinalityType
<1>8. Selectable(updated) /\ Seen(updated, obs)
  BY <1>2, <1>5, UpdatedIsSelectable
<1> HIDE DEF updated
<1>9. TracksOK(Selected(updated, obs)) /\ Len(Selected(updated, obs)) = Len(updated)
  BY <1>3, <1>8, SelectedIsOK
<1>10. stranded' = 0
  BY <1>1, <1>6, <1>7
<1>11. TracksOK(tracks)' /\ Len(tracks') <= MaxTracks
  BY <1>1, <1>9 DEF TracksOK, Selectable, AllSound, OneChosen, Locked, DebouncedIn
<1> QED
  BY <1>10, <1>11 DEF TracksInv

\* A frame that is not newer than the last one.
LEMMA BadClockStep == TracksInv /\ BadClock => TracksInv'
<1> SUFFICES ASSUME TracksInv, BadClock PROVE TracksInv'
  OBVIOUS
<1> DEFINE reset == [i \in DOMAIN tracks |->
             [tracks[i] EXCEPT !.state = "TEMP_LOST", !.count = 0, !.streak = 0, !.onTop = 0,
                               !.was = FALSE]]
           next == Chosen(reset, 0, 0, 0)
           n == Len(tracks)
<1>1. tracks' = next /\ stranded' = 0
  BY DEF BadClock
<1>2. /\ tracks \in Seq(Track) /\ DOMAIN tracks = 1 .. n /\ n \in Nat /\ n <= MaxTracks
      /\ \A i \in DOMAIN tracks : tracks[i] \in Track /\ tracks[i].age <= LostAge
  BY DEF TracksInv, TracksOK, Selectable, AllSound, Sound
<1>3. PICK no \in BOOLEAN : no = FALSE
  OBVIOUS
<1>4. ASSUME NEW i \in 1 .. n
      PROVE  next[i] \in Track /\ Sound(next[i]) /\ next[i].chosen = no /\ next[i].was = no
  <2> DEFINE t == [tracks[i] EXCEPT !.state = "TEMP_LOST", !.count = 0, !.streak = 0]
  <2>1. 0 \in 0 .. MinDetect /\ 0 \in 0 .. DebounceFrames
    BY TracksAssumption
  <2>2. tracks[i] \in Track /\ tracks[i].age <= LostAge
    BY <1>2
  <2>3. /\ t \in Track /\ t.state = "TEMP_LOST" /\ t.age = tracks[i].age
    BY <2>1, <2>2 DEF Track
  <2>4. next[i] = [[t EXCEPT !.onTop = 0, !.was = no] EXCEPT !.chosen = no, !.wins = 0]
    <3>1. reset[i] = [tracks[i] EXCEPT !.state = "TEMP_LOST", !.count = 0, !.streak = 0,
                                       !.onTop = 0, !.was = no]
      BY <1>2, <1>3
    <3>2. reset[i] = [t EXCEPT !.onTop = 0, !.was = no]
      BY <3>1
    <3>3. (i = 0) = no
      BY <1>2, <1>3
    <3>4. i \in DOMAIN reset
      BY <1>2
    <3> HIDE DEF reset, t
    <3>5. next[i] = [reset[i] EXCEPT !.chosen = (i = 0), !.wins = 0]
      BY <3>4 DEF Chosen
    <3> QED
      BY <3>2, <3>3, <3>5
  <2> HIDE DEF t, next
  <2> DEFINE u == [t EXCEPT !.onTop = 0, !.was = no]
             v == [u EXCEPT !.chosen = no, !.wins = 0]
  <2>5. u \in Track /\ u.was = no /\ u.state = t.state /\ u.age = t.age /\ u.onTop = 0
    BY <2>1, <2>3 DEF Track
  <2>6. next[i] = v
    BY <2>4
  <2> HIDE DEF u
  <2>7. /\ v \in Track /\ v.chosen = no /\ v.was = no /\ v.state = u.state
        /\ v.age = u.age /\ v.onTop = 0 /\ v.wins = 0
    BY <2>5 DEF Track
  <2> HIDE DEF v
  <2> QED
    BY <2>2, <2>3, <2>5, <2>6, <2>7 DEF Sound
<1>5. next \in Seq(Track) /\ Len(next) = n /\ DOMAIN next = 1 .. n
  <2>1. next = [i \in 1 .. n |-> next[i]]
    BY <1>2 DEF Chosen
  <2> HIDE DEF next
  <2>2. next \in [1 .. n -> Track]
    BY <1>4, <2>1
  <2> HIDE DEF n
  <2> QED
    BY <1>2, <2>2, FunctionIsSequence
<1> HIDE DEF next
<1>6. TracksOK(next) /\ Len(next) <= MaxTracks
  <2>1. \A i \in DOMAIN next : ~next[i].chosen /\ ~next[i].was
    BY <1>3, <1>4, <1>5
  <2>2. AllSound(next)
    BY <1>4, <1>5 DEF AllSound
  <2> QED
    BY <1>2, <1>5, <2>1, <2>2 DEF TracksOK, Selectable, OneChosen, Locked, DebouncedIn
<1>7. TracksOK(tracks)' /\ Len(tracks') <= MaxTracks
  BY <1>1, <1>6 DEF TracksOK, Selectable, AllSound, OneChosen, Locked, DebouncedIn
<1> QED
  BY <1>1, <1>7 DEF TracksInv

\* No frame.
LEMMA TracksUnchanged == TracksInv /\ UNCHANGED <<tracks, stranded>> => TracksInv'
BY DEF TracksInv, TracksOK, Selectable, AllSound, OneChosen, Locked, DebouncedIn

\* Without tracks there is nothing to break.
LEMMA EmptyIsOK == TracksOK(<<>>) /\ Len(<<>>) <= MaxTracks
<1>1. <<>> \in Seq(Track) /\ DOMAIN <<>> = {} /\ Len(<<>>) = 0
  OBVIOUS
<1> QED
  BY <1>1, TracksAssumption
     DEF TracksOK, Selectable, AllSound, OneChosen, Locked, DebouncedIn

\* The tracker as it is constructed.
LEMMA TracksInitially == TracksInit => TracksInv
BY EmptyIsOK DEF TracksInit, TracksInv

\* The tracker of a node that has just ended.
LEMMA TracksForgotten == TracksInit' => TracksInv'
BY EmptyIsOK
   DEF TracksInit, TracksInv, TracksOK, Selectable, AllSound, OneChosen, Locked, DebouncedIn

(* What the invariant says of the properties.                              *)

\* The types and the three properties of the tracker and the selector.
LEMMA TracksInvMeans ==
  TracksInv => /\ TracksTypeOK /\ LockIsConfirmed
               /\ MatchesAreMaximum /\ SwitchIsDebounced
<1> SUFFICES ASSUME TracksInv
             PROVE  /\ TracksTypeOK /\ LockIsConfirmed
                    /\ MatchesAreMaximum /\ SwitchIsDebounced
  OBVIOUS
<1>1. /\ \A i \in DOMAIN tracks : tracks[i] \in Track /\ Sound(tracks[i])
      /\ Len(tracks) <= MaxTracks /\ stranded = 0
      /\ OneChosen(tracks) /\ Locked(tracks) /\ DebouncedIn(tracks)
  BY DEF TracksInv, TracksOK, Selectable, AllSound
<1>2. ASSUME NEW i \in DOMAIN tracks
      PROVE  /\ tracks[i].state \in {"DETECTING", "TRACKING", "TEMP_LOST"}
             /\ tracks[i].count \in 0 .. MinDetect /\ tracks[i].age \in 0 .. LostAge
             /\ tracks[i].state = "TRACKING"
                  => tracks[i].age = 0 /\ tracks[i].streak >= MinDetect
  <2> DEFINE t == tracks[i]
  <2>1. t \in Track /\ Sound(t)
    BY <1>1
  <2> HIDE DEF t
  <2>2. /\ t.state \in {"DETECTING", "TRACKING", "TEMP_LOST"}
        /\ t.count \in 0 .. MinDetect /\ t.age \in 0 .. LostAge
        /\ t.state = "TRACKING" => t.age = 0 /\ t.streak >= MinDetect
    BY <2>1, TracksAssumption DEF Track, Sound
  <2> QED
    BY <2>2 DEF t
<1>3. \A i \in DOMAIN tracks : tracks[i].chosen => tracks[i].state = "TRACKING"
  BY <1>1 DEF Locked
<1>4. TracksTypeOK
  BY <1>1, <1>2, <1>3 DEF TracksTypeOK, OneChosen
<1>5. LockIsConfirmed
  BY <1>2 DEF LockIsConfirmed
<1> QED
  BY <1>1, <1>4, <1>5 DEF MatchesAreMaximum, SwitchIsDebounced, DebouncedIn
=============================================================================
