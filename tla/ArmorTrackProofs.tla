-------------------------- MODULE ArmorTrackProofs --------------------------
(***************************************************************************)
(* Proofs about the two buffers of ArmorTrack, for any classes and any     *)
(* thresholds: a lock is earned, and an outpost is kept.                   *)
(*                                                                         *)
(* Neither is inductive.  What a buffer on trial has counted must be what  *)
(* it was seen, which is true of the backup only while the lock is in      *)
(* doubt; and the backup must know that the outpost it may replace has     *)
(* not been seen for the lost time.                                        *)
(***************************************************************************)
EXTENDS ArmorTrack, TLAPS

\* A buffer and what belongs to it when it is not lost.
TypedSlot(s) ==
  /\ s \in Slots
  /\ s.state # "LOST" => s.inited /\ s.number \in Numbers

\* On trial, the count is the streak; locked, the streak is long enough.
Earned(s) ==
  /\ s.state = "DETECTING" => s.count = s.streak
  /\ Held(s) => s.streak > TrackingThres

\* What the backup was started on, by the current target it may replace.
OutpostGuarded(c, p) ==
  Held(c) /\ c.number = Outpost /\ p.state # "LOST" /\ p.number # Outpost
    => c.age >= LostTime

TrackInv ==
  /\ TypedSlot(cur) /\ TypedSlot(pre) /\ ~Held(pre)
  /\ Earned(cur)
  /\ cur.state = "TEMP_LOST" => Earned(pre)
  /\ cur.state = "TRACKING" => pre.state = "LOST"
  /\ OutpostGuarded(cur, pre)
-----------------------------------------------------------------------------
(* One buffer in one frame.                                                *)

LEMMA AgeCapNat == AgeCap \in Nat /\ LostTime <= AgeCap /\ FrameAge <= AgeCap
BY TrackAssumption DEF AgeCap

LEMMA ZeroCount ==
  /\ 0 \in 0 .. TrackingThres /\ 0 \in 0 .. TrackingThres + 1
  /\ "LOST" \in States /\ "DETECTING" \in States /\ "TRACKING" \in States
BY TrackAssumption DEF States

LEMMA NoTargetTyped == TypedSlot(NoTarget) /\ Earned(NoTarget) /\ NoTarget.state = "LOST"
<1>1. NoTarget \in Slots
  BY AgeCapNat, TrackAssumption DEF NoTarget, Slots, States
<1> QED
  BY <1>1 DEF TypedSlot, Earned, Held, NoTarget

\* A plate of a class that may be started on starts a trial.
LEMMA StartedTyped ==
  ASSUME NEW n \in Numbers, NEW late \in 0 .. FrameAge
  PROVE  /\ TypedSlot(Started(n, late)) /\ Earned(Started(n, late))
         /\ Started(n, late).state = "DETECTING" /\ Started(n, late).number = n
<1> DEFINE s == Started(n, late)
<1>1. /\ s.state = "DETECTING" /\ s.number = n /\ s.inited = TRUE
      /\ s.count = 0 /\ s.streak = 0
  BY DEF Started, NoTarget
<1>2. late \in 0 .. AgeCap
  BY AgeCapNat, TrackAssumption
<1>3. s \in Slots
  <2>1. NoTarget \in Slots /\ "DETECTING" \in States /\ n \in Numbers \cup {Unknown}
    BY NoTargetTyped DEF TypedSlot, States
  <2> QED
    BY <1>2, <2>1 DEF Started, Slots
<1> HIDE DEF s
<1> QED
  BY <1>1, <1>3 DEF s, TypedSlot, Earned, Held

\* update_target changes the age and what has been seen, nothing else.
LEMMA UpdatedTyped ==
  ASSUME NEW s, TypedSlot(s), NEW jumped \in BOOLEAN, NEW late \in 0 .. FrameAge
  PROVE  /\ TypedSlot(Updated(s, jumped, late))
         /\ Updated(s, jumped, late).state = s.state
         /\ Updated(s, jumped, late).number = s.number
         /\ Earned(s) => Earned(Updated(s, jumped, late))
<1> DEFINE u == Updated(s, jumped, late)
<1>1. /\ u.state = s.state /\ u.count = s.count /\ u.number = s.number
      /\ u.inited = s.inited /\ u.streak = s.streak
  BY DEF Updated, TypedSlot, Slots
<1>2. late \in 0 .. AgeCap
  BY AgeCapNat, TrackAssumption
<1>3. u \in Slots
  BY <1>2 DEF Updated, TypedSlot, Slots
<1> HIDE DEF u
<1> QED
  BY <1>1, <1>3 DEF u, TypedSlot, Earned, Held

\* Found again, a buffer is on trial or locked, on the same plate; it locks
\* from a trial only after more than tracking_thres frames.
LEMMA FoundTyped ==
  ASSUME NEW s, TypedSlot(s), s.state # "LOST"
  PROVE  /\ TypedSlot(AfterFound(s))
         /\ AfterFound(s).state \in {"DETECTING", "TRACKING"}
         /\ AfterFound(s).number = s.number
         /\ Held(s) => AfterFound(s).state = "TRACKING"
         /\ Earned(s) => Earned(AfterFound(s))
<1> DEFINE f == AfterFound(s)
<1>0. /\ s.count \in 0 .. TrackingThres /\ s.streak \in 0 .. TrackingThres + 1
      /\ s.state \in States
  BY DEF TypedSlot, Slots
<1>1. CASE s.state = "DETECTING"
  <2> DEFINE k == IF s.streak > TrackingThres THEN s.streak ELSE s.streak + 1
             t == [s EXCEPT !.streak = k]
  <2>1. k \in 0 .. TrackingThres + 1 /\ k \in Nat
    BY <1>0, TrackAssumption
  <2>2. t \in Slots /\ t.state = "DETECTING" /\ t.count = s.count /\ t.streak = k
        /\ t.number = s.number /\ t.inited = s.inited
    BY <1>1, <2>1 DEF TypedSlot, Slots
  <2>3. f = CountUp(t)
    BY <1>1 DEF AfterFound
  <2>4. s.count = s.streak => k = s.count + 1
    BY <1>0, TrackAssumption
  <2> HIDE DEF t, k, f
  <2>5. CASE s.count + 1 > TrackingThres
    <3>1. f = [t EXCEPT !.count = 0, !.state = "TRACKING"]
      BY <2>2, <2>3, <2>5 DEF CountUp
    <3>2. /\ f \in Slots /\ f.state = "TRACKING" /\ f.streak = k
          /\ f.number = s.number /\ f.inited = s.inited
      BY <2>2, <3>1, ZeroCount DEF Slots
    <3>3. Earned(s) => Earned(f)
      BY <3>2, <2>4, <2>5, <1>1 DEF Earned
    <3>4. ~Held(s)
      BY <1>1 DEF Held
    <3> QED
      BY <3>2, <3>3, <3>4, <1>1 DEF f, TypedSlot
  <2>6. CASE ~(s.count + 1 > TrackingThres)
    <3>1. f = [t EXCEPT !.count = s.count + 1]
      BY <2>2, <2>3, <2>6 DEF CountUp
    <3>2. s.count + 1 \in 0 .. TrackingThres
      BY <2>6, <1>0, TrackAssumption
    <3>3. /\ f \in Slots /\ f.state = "DETECTING" /\ f.streak = k
          /\ f.count = s.count + 1 /\ f.number = s.number /\ f.inited = s.inited
      BY <2>2, <3>1, <3>2 DEF Slots
    <3>4. Earned(s) => Earned(f)
      BY <3>3, <2>4, <1>1 DEF Earned, Held
    <3>5. ~Held(s)
      BY <1>1 DEF Held
    <3> QED
      BY <3>3, <3>4, <3>5, <1>1 DEF f, TypedSlot
  <2> QED
    BY <2>5, <2>6
<1>2. CASE s.state # "DETECTING"
  <2>1. f = [s EXCEPT !.state = "TRACKING"]
    BY <1>2 DEF AfterFound
  <2>2. Held(s)
    BY <1>0, <1>2 DEF Held, States
  <2> HIDE DEF f
  <2>3. /\ f \in Slots /\ f.state = "TRACKING" /\ f.streak = s.streak
        /\ f.number = s.number /\ f.inited = s.inited
    BY <2>1 DEF TypedSlot, Slots, States
  <2>4. Earned(s) => Earned(f)
    BY <2>2, <2>3 DEF Earned
  <2> QED
    BY <2>2, <2>3, <2>4 DEF f, TypedSlot
<1> QED
  BY <1>1, <1>2

\* Not found, a buffer keeps its plate and its age; a lock becomes one in
\* doubt or is lost.
LEMMA MissTyped ==
  ASSUME NEW s, TypedSlot(s), NEW late
  PROVE  /\ TypedSlot(AfterMiss(s, late))
         /\ AfterMiss(s, late).state \in {"LOST", "TEMP_LOST"}
         /\ AfterMiss(s, late).number = s.number /\ AfterMiss(s, late).age = s.age
         /\ Held(AfterMiss(s, late)) => Held(s)
         /\ Earned(s) => Earned(AfterMiss(s, late))
<1> DEFINE m == AfterMiss(s, late)
<1>0. s \in Slots /\ s.state \in States
  BY DEF TypedSlot, Slots
<1>1. CASE s.state = "DETECTING"
  <2>1. m = [s EXCEPT !.state = "LOST", !.count = 0, !.streak = 0]
    BY <1>1 DEF AfterMiss
  <2> HIDE DEF m
  <2>2. m \in Slots /\ m.state = "LOST" /\ m.number = s.number /\ m.age = s.age
    BY <1>0, <2>1, ZeroCount DEF Slots
  <2> QED
    BY <2>2 DEF m, TypedSlot, Earned, Held
<1>2. CASE s.state = "TRACKING"
  <2>1. m = [s EXCEPT !.state = "TEMP_LOST"]
    BY <1>2 DEF AfterMiss
  <2> HIDE DEF m
  <2>2. /\ m \in Slots /\ m.state = "TEMP_LOST" /\ m.number = s.number
        /\ m.age = s.age /\ m.streak = s.streak /\ m.inited = s.inited
    BY <1>0, <2>1 DEF Slots, States
  <2> QED
    BY <2>2, <1>2 DEF m, TypedSlot, Earned, Held
<1>3. CASE s.state = "TEMP_LOST"
  <2>1. m = [s EXCEPT !.state = "LOST"] \/ m = s
    BY <1>3 DEF AfterMiss
  <2> HIDE DEF m
  <2>2. /\ m \in Slots /\ m.state \in {"LOST", "TEMP_LOST"} /\ m.number = s.number
        /\ m.age = s.age /\ m.streak = s.streak /\ m.inited = s.inited
    BY <1>0, <1>3, <2>1 DEF Slots, States
  <2> QED
    BY <2>2, <1>3 DEF m, TypedSlot, Earned, Held
<1>4. CASE s.state = "LOST"
  <2>1. m = s
    BY <1>4 DEF AfterMiss
  <2> QED
    BY <2>1, <1>4
<1> QED
  BY <1>0, <1>1, <1>2, <1>3, <1>4 DEF States

\* Whatever becomes of a buffer in a frame: it stays on its plate, or is
\* started on one that the current target c lets it have; and only a lock
\* that was missed is in doubt.
LEMMA ProcessedTyped ==
  ASSUME NEW s, NEW c, TypedSlot(s), NEW late \in 0 .. FrameAge, NEW found \in BOOLEAN,
         NEW p \in Processed(s, c, late, found)
  PROVE  /\ TypedSlot(p)
         /\ Earned(s) => Earned(p)
         /\ s.state # "LOST" => p.number = s.number
         /\ s.state = "LOST" /\ p.state # "LOST" => p.number \in Eligible(c)
         /\ p.state = "TEMP_LOST" => Held(s) /\ p.age = s.age /\ p.number = s.number
<1>1. CASE ~found
  <2>1. p = AfterMiss(s, late)
    BY <1>1 DEF Processed
  <2>2. s.state = "LOST" => p = s
    BY <2>1 DEF AfterMiss
  <2> QED
    BY <2>1, <2>2, MissTyped DEF Held
<1>2. CASE found /\ s.state = "LOST"
  <2>1. PICK n \in Eligible(c) : p = AfterFound(Started(n, late))
    BY <1>2 DEF Processed
  <2>2. n \in Numbers
    BY <2>1, TrackAssumption DEF Eligible
  <2>3. /\ TypedSlot(Started(n, late)) /\ Earned(Started(n, late))
        /\ Started(n, late).state # "LOST" /\ Started(n, late).number = n
    BY <2>2, StartedTyped
  <2>4. /\ TypedSlot(p) /\ p.state \in {"DETECTING", "TRACKING"} /\ p.number = n
        /\ Earned(p)
    BY <2>1, <2>3, FoundTyped
  <2> QED
    BY <1>2, <2>1, <2>4
<1>3. CASE found /\ s.state # "LOST"
  <2>1. PICK jumped \in BOOLEAN : p = AfterFound(Updated(s, jumped, late))
    BY <1>3 DEF Processed
  <2> DEFINE u == Updated(s, jumped, late)
  <2>2. /\ TypedSlot(u) /\ u.state = s.state /\ u.number = s.number
        /\ Earned(s) => Earned(u)
    BY UpdatedTyped
  <2> HIDE DEF u
  <2>3. /\ TypedSlot(p) /\ p.state \in {"DETECTING", "TRACKING"} /\ p.number = u.number
        /\ Earned(u) => Earned(p)
    BY <1>3, <2>1, <2>2, FoundTyped DEF u
  <2> QED
    BY <1>3, <2>2, <2>3
<1> QED
  BY <1>1, <1>2, <1>3

\* A dropped backup is a lost one.
LEMMA DroppedTyped ==
  ASSUME NEW s, TypedSlot(s)
  PROVE  DropBackup(s) = NoTarget
<1>1. [s EXCEPT !.state = "LOST"].state = "LOST"
  BY DEF TypedSlot, Slots
<1> QED
  BY <1>1 DEF DropBackup, Backup

\* A backup that is not looked at changes in nothing but its streak.
LEMMA UnprocessedTyped ==
  ASSUME NEW s, TypedSlot(s)
  PROVE  TypedSlot(Unprocessed(s)) /\ Unprocessed(s).state = s.state
<1> DEFINE u == Unprocessed(s)
<1>1. /\ u \in Slots /\ u.state = s.state /\ u.number = s.number /\ u.inited = s.inited
  BY ZeroCount DEF Unprocessed, TypedSlot, Slots
<1> QED
  BY <1>1 DEF TypedSlot

\* Time changes nothing but the age, which does not decrease below a
\* threshold once it has reached it.
LEMMA OlderTyped ==
  ASSUME NEW s, TypedSlot(s)
  PROVE  LET o == [s EXCEPT !.age = Older(@)]
         IN /\ TypedSlot(o) /\ o.state = s.state /\ o.number = s.number
            /\ Earned(s) => Earned(o)
            /\ s.age >= LostTime => o.age >= LostTime
<1> DEFINE o == [s EXCEPT !.age = Older(@)]
<1>1. s.age \in 0 .. AgeCap
  BY DEF TypedSlot, Slots
<1>2. Older(s.age) \in 0 .. AgeCap /\ (s.age >= LostTime => Older(s.age) >= LostTime)
  BY <1>1, AgeCapNat, TrackAssumption DEF Older
<1>3. /\ o \in Slots /\ o.state = s.state /\ o.number = s.number /\ o.inited = s.inited
      /\ o.count = s.count /\ o.streak = s.streak /\ o.age = Older(s.age)
  BY <1>2 DEF TypedSlot, Slots
<1> HIDE DEF o
<1>4. TypedSlot(o) /\ (Earned(s) => Earned(o)) /\ (s.age >= LostTime => o.age >= LostTime)
  BY <1>2, <1>3 DEF TypedSlot, Earned, Held
<1> QED
  BY <1>3, <1>4 DEF o
-----------------------------------------------------------------------------
(* The two buffers.                                                        *)

\* A current target in doubt is a lock that was missed.
LEMMA InDoubtCurrent ==
  ASSUME TrackInv, NEW late \in 0 .. FrameAge, NEW found \in BOOLEAN,
         NEW c \in Processed(cur, cur, late, found), c.state = "TEMP_LOST"
  PROVE  /\ TypedSlot(c) /\ Earned(c) /\ Held(cur)
         /\ c.age = cur.age /\ c.number = cur.number
<1>1. TypedSlot(cur) /\ Earned(cur)
  BY DEF TrackInv
<1>2. TypedSlot(c)
  BY <1>1, ProcessedTyped
<1>3. Earned(c)
  BY <1>1, ProcessedTyped
<1>4. Held(cur) /\ c.age = cur.age /\ c.number = cur.number
  BY <1>1, ProcessedTyped
<1> QED
  BY <1>2, <1>3, <1>4

\* In doubt, what the backup becomes has counted what was seen, is not in
\* doubt itself, and respects an outpost that was seen lately.
LEMMA InDoubtBackup ==
  ASSUME TrackInv, NEW late \in 0 .. FrameAge, NEW found \in BOOLEAN,
         NEW foundPre \in BOOLEAN,
         NEW c \in Processed(cur, cur, late, found), c.state = "TEMP_LOST",
         NEW p \in Processed(pre, c, late, foundPre)
  PROVE  /\ TypedSlot(c) /\ Earned(c) /\ Held(cur)
         /\ c.age = cur.age /\ c.number = cur.number
         /\ TypedSlot(p) /\ Earned(p) /\ p.state # "TEMP_LOST"
         /\ OutpostGuarded(c, p)
<1>1. /\ TypedSlot(c) /\ Earned(c) /\ Held(cur) /\ c.age = cur.age
      /\ c.number = cur.number
  BY InDoubtCurrent
<1>2. Earned(pre)
  BY <1>1 DEF TrackInv, Earned, Held
<1>3. TypedSlot(p) /\ Earned(p) /\ p.state # "TEMP_LOST"
  BY <1>2, ProcessedTyped DEF TrackInv
<1>4. OutpostGuarded(c, p)
  <2> SUFFICES ASSUME c.number = Outpost, p.state # "LOST", p.number # Outpost
               PROVE  c.age >= LostTime
    BY DEF OutpostGuarded
  <2>1. CASE pre.state = "LOST"
    <3>1. p.number \in Eligible(c)
      BY <2>1, ProcessedTyped DEF TrackInv
    <3>2. ~Live(c) /\ Held(c)
      BY <3>1 DEF Eligible, Held
    <3>3. c.age \in Int /\ LostTime \in Int
      BY <1>1, TrackAssumption DEF TypedSlot, Slots
    <3> QED
      BY <3>2, <3>3 DEF Live
  <2>2. CASE pre.state # "LOST"
    <3>1. p.number = pre.number
      BY <2>2, ProcessedTyped DEF TrackInv
    <3> QED
      BY <1>1, <2>2, <3>1 DEF TrackInv, OutpostGuarded
  <2> QED
    BY <2>1, <2>2
<1> QED
  BY <1>1, <1>3, <1>4

\* While the backup is not looked at, the current target keeps its plate.
LEMMA AloneStep ==
  ASSUME TrackInv, NEW late \in 0 .. FrameAge, NEW found \in BOOLEAN, Alone(late, found)
  PROVE  TrackInv' /\ (Held(cur) /\ Held(cur') => cur'.number = cur.number)
<1>1. PICK c \in Processed(cur, cur, late, found) :
        /\ c.state # "TEMP_LOST" /\ cur' = c
        /\ pre' = IF c.state = "TRACKING" THEN DropBackup(pre) ELSE Unprocessed(pre)
  BY DEF Alone
<1>2. TypedSlot(c) /\ Earned(c) /\ (cur.state # "LOST" => c.number = cur.number)
  BY ProcessedTyped DEF TrackInv
<1>3. /\ TypedSlot(pre') /\ ~Held(pre')
      /\ c.state = "TRACKING" => pre'.state = "LOST"
  <2>1. CASE c.state = "TRACKING"
    <3>1. pre' = NoTarget
      BY <1>1, <2>1, DroppedTyped DEF TrackInv
    <3> QED
      BY <3>1, NoTargetTyped DEF Held
  <2>2. CASE c.state # "TRACKING"
    <3>1. TypedSlot(pre') /\ pre'.state = pre.state
      BY <1>1, <2>2, UnprocessedTyped DEF TrackInv
    <3> QED
      BY <2>2, <3>1 DEF TrackInv, Held
  <2> QED
    BY <2>1, <2>2
<1>4. OutpostGuarded(c, pre')
  BY <1>1, <1>3 DEF OutpostGuarded, Held
<1> QED
  BY <1>1, <1>2, <1>3, <1>4
  DEF TrackInv, TypedSlot, Earned, OutpostGuarded, Held

\* The backup takes over only when it has locked, and an outpost is then
\* replaced only after the lost time.
LEMMA InDoubtStep ==
  ASSUME TrackInv, NEW late \in 0 .. FrameAge, NEW found \in BOOLEAN,
         NEW foundPre \in BOOLEAN, InDoubt(late, found, foundPre)
  PROVE  /\ TrackInv'
         /\ cur.number = Outpost /\ Held(cur') /\ cur'.number # Outpost
              => cur.age >= LostTime
<1>0. PICK c \in Processed(cur, cur, late, found) :
        /\ c.state = "TEMP_LOST"
        /\ \E p \in Processed(pre, c, late, foundPre) :
             IF p.state = "TRACKING" THEN cur' = p /\ pre' = DropBackup(c)
             ELSE cur' = c /\ pre' = Backup(p)
  BY DEF InDoubt
<1>1. PICK p \in Processed(pre, c, late, foundPre) :
        IF p.state = "TRACKING" THEN cur' = p /\ pre' = DropBackup(c)
        ELSE cur' = c /\ pre' = Backup(p)
  BY <1>0
<1>2. /\ TypedSlot(c) /\ Earned(c) /\ Held(cur)
      /\ c.age = cur.age /\ c.number = cur.number
      /\ TypedSlot(p) /\ Earned(p) /\ p.state # "TEMP_LOST" /\ OutpostGuarded(c, p)
  BY <1>0, InDoubtBackup
<1>3. CASE p.state = "TRACKING"
  <2>1. cur' = p /\ pre' = NoTarget
    BY <1>1, <1>2, <1>3, DroppedTyped
  <2>2. TrackInv'
    BY <1>2, <1>3, <2>1, NoTargetTyped
    DEF TrackInv, TypedSlot, Earned, OutpostGuarded, Held
  <2>3. cur.number = Outpost /\ cur'.number # Outpost => cur.age >= LostTime
    BY <1>0, <1>2, <1>3, <2>1 DEF OutpostGuarded, Held
  <2> QED
    BY <2>2, <2>3
<1>4. CASE p.state # "TRACKING"
  <2>1. cur' = c /\ pre' = Backup(p)
    BY <1>1, <1>4
  <2>2. TypedSlot(pre') /\ Earned(pre') /\ ~Held(pre') /\ OutpostGuarded(c, pre')
    <3>1. CASE p.state = "LOST"
      BY <2>1, <3>1, NoTargetTyped DEF Backup, Held, OutpostGuarded
    <3>2. CASE p.state # "LOST"
      <4>1. pre' = p
        BY <2>1, <3>2 DEF Backup
      <4> QED
        BY <1>2, <1>4, <4>1 DEF Held
    <3> QED
      BY <3>1, <3>2
  <2>3. TrackInv'
    BY <1>0, <1>2, <2>1, <2>2
    DEF TrackInv, TypedSlot, Earned, OutpostGuarded, Held
  <2>4. cur'.number = cur.number
    BY <1>2, <2>1
  <2> QED
    BY <2>3, <2>4
<1> QED
  BY <1>3, <1>4

\* Time alone moves no plate.
LEMMA ElapseStep ==
  ASSUME TrackInv, TrackElapse
  PROVE  TrackInv' /\ cur'.number = cur.number
<1> DEFINE p == [pre EXCEPT !.age = Older(@)]
<1>1. /\ TypedSlot(cur') /\ cur'.state = cur.state /\ cur'.number = cur.number
      /\ Earned(cur') /\ (cur.age >= LostTime => cur'.age >= LostTime)
  BY OlderTyped DEF TrackInv, TrackElapse
<1>2. /\ TypedSlot(p) /\ p.state = pre.state /\ p.number = pre.number
      /\ Earned(pre) => Earned(p)
  BY OlderTyped DEF TrackInv
<1> HIDE DEF p
<1>3. pre' = Backup(p)
  BY DEF TrackElapse, p
<1>4. CASE p.state = "LOST"
  <2>1. pre' = NoTarget
    BY <1>3, <1>4 DEF Backup
  <2> QED
    BY <1>1, <2>1, NoTargetTyped
    DEF TrackInv, TypedSlot, Earned, OutpostGuarded, Held
<1>5. CASE p.state # "LOST"
  <2>1. pre' = p
    BY <1>3, <1>5 DEF Backup
  <2>2. TypedSlot(pre') /\ ~Held(pre') /\ (cur'.state = "TEMP_LOST" => Earned(pre'))
    BY <1>1, <1>2, <2>1 DEF TrackInv, Held
  <2>3. cur'.state = "TRACKING" => pre'.state = "LOST"
    BY <1>1, <1>2, <2>1 DEF TrackInv
  <2>4. OutpostGuarded(cur', pre')
    BY <1>1, <1>2, <2>1 DEF TrackInv, OutpostGuarded, Held
  <2> QED
    BY <1>1, <2>2, <2>3, <2>4
    DEF TrackInv, TypedSlot, Earned, OutpostGuarded, Held
<1> QED
  BY <1>4, <1>5
-----------------------------------------------------------------------------
(* The tracker.                                                            *)

\* One frame, or the lapse of time.
LEMMA TrackStep ==
  ASSUME TrackInv, [TrackNext]_slots
  PROVE  /\ TrackInv'
         /\ [cur.number = Outpost /\ Held(cur) /\ Held(cur') /\ cur'.number # Outpost =>
               cur.age >= LostTime]_slots
<1>1. CASE \E late \in 0 .. FrameAge, found, foundPre \in BOOLEAN : Track(late, found, foundPre)
  <2>1. PICK late \in 0 .. FrameAge, found \in BOOLEAN, foundPre \in BOOLEAN :
          Alone(late, found) \/ InDoubt(late, found, foundPre)
    BY <1>1 DEF Track
  <2> QED
    BY <2>1, AloneStep, InDoubtStep
<1>2. CASE TrackElapse
  BY <1>2, ElapseStep
<1>3. CASE UNCHANGED slots
  BY <1>3 DEF slots, TrackInv, TypedSlot, Earned, OutpostGuarded, Held
<1> QED
  BY <1>1, <1>2, <1>3 DEF TrackNext

THEOREM TrackInvariant == TrackSpec => []TrackInv
<1>1. TrackInit => TrackInv
  BY NoTargetTyped DEF TrackInit, TrackInv, OutpostGuarded, Held
<1> QED
  BY <1>1, TrackStep, PTL DEF TrackSpec

\* Both buffers keep their type, and the backup is never a lock.
THEOREM TrackTypeCorrect == TrackSpec => []TrackTypeOK
<1>1. TrackInv => TrackTypeOK
  BY DEF TrackInv, TrackTypeOK, TypedSlot
<1> QED
  BY <1>1, TrackInvariant, PTL

\* A lock was found in more than tracking_thres frames in a row, whichever
\* buffer it comes from.
THEOREM TrackLockIsEarned == TrackSpec => []LockIsEarned
<1>1. TrackInv => LockIsEarned
  BY DEF TrackInv, Earned, LockIsEarned
<1> QED
  BY <1>1, TrackInvariant, PTL

\* A locked outpost that was seen within the lost time is not replaced by
\* another robot.
THEOREM TrackOutpostKept == TrackSpec => OutpostKept
<1>1. TrackInv /\ [TrackNext]_slots =>
        [cur.number = Outpost /\ Held(cur) /\ Held(cur') /\ cur'.number # Outpost =>
           cur.age >= LostTime]_slots
  BY TrackStep
<1> QED
  BY <1>1, TrackInvariant, PTL DEF TrackSpec, OutpostKept
=============================================================================
