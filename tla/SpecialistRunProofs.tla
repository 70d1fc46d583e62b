-------------------------- MODULE SpecialistRunProofs --------------------------
(***************************************************************************)
(* Machine-checked theorems about SpecialistRun, for any calls and limits: *)
(* a stop for repetition says what happened, the forced report fits into   *)
(* the budget, and a run without a report has a reason.  The second part   *)
(* is about FindingsHandoff: what such a run is given and what it returns. *)
(*                                                                         *)
(* The history only grows, so the argument is about what a step appends:   *)
(* Sound is the invariant, with one part for the budget, one for the       *)
(* refusals and one for the end of the run.                                *)
(***************************************************************************)
EXTENDS SpecialistRun, FindingsHandoff, DataTheorems

\* Before the loop ends the calls are those made outside the reserve, with the
\* last message's, and the reports that had to be retried.
Budget ==
    place \notin {"exit", "done"} =>
        spent + Reserve + 1 <= ToolLimit + MaxParallel + malformed

\* No report was refused by the limit.
NotLimited == \A i \in DOMAIN msgs : msgs[i] # Result(Report, "limited")

\* The refused call at i is that of the answer at j, the last one but for those
\* to the message of the refused call.
Repeats(h, i, j) ==
    /\ IsResult(h[j]) /\ h[j].call = h[i].call
    /\ \A m \in (j + 1)..(i - 1) :
          IsResult(h[m]) => \A n \in m..i : h[n].kind # "ai"
OriginAt(h, i) ==
    IsRefusal(h[i]) => h[i].call \in Research /\ \E j \in 1..(i - 1) : Repeats(h, i, j)

\* Neither the model's nor a refusal: what ends a series of refusals.
BreaksAt(h, i) == ~FromModel(h[i]) /\ ~IsRefusal(h[i])

\* The refusals of a series are of one call.
SeriesAt(h, i, j) ==
    /\ i <= j /\ IsRefusal(h[i]) /\ IsRefusal(h[j])
    /\ \A k \in i..j : ~BreaksAt(h, k)
    => h[i].call = h[j].call

\* What StopIsTruthful says of the message at i: k is the first of the refusals.
RefusedIn(h, k, i) == {m \in k..i : IsRefusal(h[m])}
Unbroken(h, k, i) ==
    /\ h[k] = Result(h[i].call, "refused")
    /\ \A m \in k..i : FromModel(h[m]) \/ h[m] = Result(h[i].call, "refused")
    /\ Cardinality(RefusedIn(h, k, i)) = h[i].count - 1
TruthAt(h, i) ==
    h[i].kind = "stopped" =>
        \E k \in 1..(i - 1) : \E j \in 1..(k - 1) : Unbroken(h, k, i) /\ Repeats(h, k, j)

Faithful(h) ==
    /\ \A i \in DOMAIN h : OriginAt(h, i) /\ TruthAt(h, i)
    /\ \A i, j \in DOMAIN h : SeriesAt(h, i, j)
Refusals == Faithful(msgs)

IsLastAI(i) ==
    /\ i \in DOMAIN msgs /\ msgs[i].kind = "ai"
    /\ \A j \in DOMAIN msgs : msgs[j].kind = "ai" => j <= i

\* The tools run on calls of the last message of the model.
Called ==
    place = "tools" =>
        \E i \in DOMAIN msgs : IsLastAI(i) /\ msgs[i].calls \in Seq(Research)

\* The run has left the loop with a report or with a reason.
Reason ==
    place \in {"exit", "done"} /\ ~report =>
        \/ Last(msgs).kind = "stopped"
        \/ /\ Last(msgs) = AI(<<>>)
           /\ \E i \in 1..(Len(msgs) - 1) : msgs[i] = Human("reminder")

Sound == TypeOK /\ Budget /\ NotLimited /\ Refusals /\ Called /\ Reason

-----------------------------------------------------------------------------
(* Messages and sequences of them.                                         *)

\* The four kinds of messages.
LEMMA Kinds ==
    /\ \A mark \in {"task", "steer", "reminder"} :
          Human(mark) \in Messages /\ Human(mark).kind = "human"
    /\ \A calls \in SeqOf(Research \cup {Report}, MaxParallel) :
          AI(calls) \in Messages /\ AI(calls).kind = "ai" /\ AI(calls).calls = calls
    /\ \A call \in Research, count \in Nat :
          /\ Stopped(call, count) \in Messages /\ Stopped(call, count).kind = "stopped"
          /\ Stopped(call, count).call = call /\ Stopped(call, count).count = count
    /\ \A call \in Research \cup {Report}, how \in {"ran", "refused", "limited", "malformed"} :
          /\ Result(call, how) \in Messages /\ Result(call, how).kind = "tool"
          /\ Result(call, how).call = call /\ Result(call, how).how = how
BY DEF Messages, Human, AI, Stopped, Result

\* And no others.
LEMMA Fields ==
    ASSUME NEW m \in Messages
    PROVE  /\ m.kind \in {"human", "ai", "stopped", "tool"}
           /\ m.kind = "ai" => m.calls \in SeqOf(Research \cup {Report}, MaxParallel)
           /\ m.kind = "stopped" => m.call \in Research /\ m.count \in Nat
           /\ m.kind = "tool" =>
                /\ m.call \in Research \cup {Report}
                /\ m.how \in {"ran", "refused", "limited", "malformed"}
                /\ m = Result(m.call, m.how)
BY DEF Messages, Result

\* A short sequence is a sequence.
LEMMA Short ==
    ASSUME NEW S, NEW n \in Nat, NEW s
    PROVE  s \in SeqOf(S, n) <=> s \in Seq(S) /\ Len(s) <= n
<1>1. ASSUME s \in SeqOf(S, n) PROVE s \in Seq(S) /\ Len(s) <= n
  <2>1. PICK m \in 0..n : s \in [1..m -> S] BY <1>1 DEF SeqOf
  <2>2. s \in Seq(S) BY <2>1
  <2>3. Len(s) = m BY <2>1, <2>2, LenProperties
  <2> QED BY <2>2, <2>3
<1>2. ASSUME s \in Seq(S), Len(s) <= n PROVE s \in SeqOf(S, n)
  <2>1. Len(s) \in 0..n /\ s \in [1..Len(s) -> S] BY <1>2, LenProperties
  <2> QED BY <2>1 DEF SeqOf
<1> QED BY <1>1, <1>2

\* The messages of a step after those before it.
LEMMA Appended ==
    ASSUME NEW S, NEW s \in Seq(S), NEW t \in Seq(S)
    PROVE  /\ s \o t \in Seq(S) /\ Len(s \o t) = Len(s) + Len(t)
           /\ Len(s) \in Nat /\ Len(t) \in Nat
           /\ DOMAIN s = 1..Len(s) /\ DOMAIN t = 1..Len(t)
           /\ DOMAIN (s \o t) = 1..(Len(s) + Len(t))
           /\ \A i \in 1..Len(s) : (s \o t)[i] = s[i]
           /\ \A i \in (Len(s) + 1)..(Len(s) + Len(t)) :
                 i - Len(s) \in 1..Len(t) /\ (s \o t)[i] = t[i - Len(s)]
<1>1. Len(s) \in Nat /\ Len(t) \in Nat /\ DOMAIN s = 1..Len(s) /\ DOMAIN t = 1..Len(t)
      BY LenProperties
<1>2. /\ s \o t \in Seq(S) /\ Len(s \o t) = Len(s) + Len(t)
      /\ \A i \in 1..(Len(s) + Len(t)) :
            (s \o t)[i] = IF i <= Len(s) THEN s[i] ELSE t[i - Len(s)]
      BY ConcatProperties
<1>3. DOMAIN (s \o t) = 1..(Len(s) + Len(t)) BY <1>2, LenProperties
<1> DEFINE c == s \o t
<1> HIDE DEF c
<1>4. \A i \in 1..Len(s) : c[i] = s[i] BY <1>1, <1>2 DEF c
<1>5. \A i \in (Len(s) + 1)..(Len(s) + Len(t)) :
         i - Len(s) \in 1..Len(t) /\ c[i] = t[i - Len(s)]
      BY <1>1, <1>2 DEF c
<1> QED BY <1>1, <1>2, <1>3, <1>4, <1>5 DEF c
-----------------------------------------------------------------------------
(* Refusals.                                                               *)

\* What has been said of a message stays true when the history grows.
LEMMA TruthStays ==
    ASSUME NEW h, NEW g, NEW i \in Nat \ {0}, \A j \in 1..i : g[j] = h[j]
    PROVE  /\ OriginAt(h, i) => OriginAt(g, i)
           /\ TruthAt(h, i) => TruthAt(g, i)
           /\ \A j \in 1..i : SeriesAt(h, j, i) => SeriesAt(g, j, i)
<1>1. g[i] = h[i] OBVIOUS
<1>2. \A k \in 1..i : \A j \in 1..(k - 1) : Repeats(h, k, j) => Repeats(g, k, j)
  <2> TAKE k \in 1..i
  <2> TAKE j \in 1..(k - 1)
  <2>1. \A m \in j..k : g[m] = h[m] OBVIOUS
  <2>2. j \in j..k /\ k \in j..k OBVIOUS
  <2>3. \A m \in (j + 1)..(k - 1) : m \in j..k /\ \A n \in m..k : n \in j..k OBVIOUS
  <2> QED BY <2>1, <2>2, <2>3 DEF Repeats
<1>3. OriginAt(h, i) => OriginAt(g, i) BY <1>1, <1>2 DEF OriginAt
<1>4. \A k \in 1..i : Unbroken(h, k, i) => Unbroken(g, k, i)
  <2> TAKE k \in 1..i
  <2>1. \A m \in k..i : g[m] = h[m] OBVIOUS
  <2>2. RefusedIn(g, k, i) = RefusedIn(h, k, i) BY <2>1 DEF RefusedIn
  <2> QED BY <1>1, <2>1, <2>2 DEF Unbroken
<1>5. TruthAt(h, i) => TruthAt(g, i)
  <2> SUFFICES ASSUME TruthAt(h, i), h[i].kind = "stopped" PROVE TruthAt(g, i)
      BY <1>1 DEF TruthAt
  <2>1. PICK k \in 1..(i - 1) : \E j \in 1..(k - 1) : Unbroken(h, k, i) /\ Repeats(h, k, j)
        BY DEF TruthAt
  <2>2. k \in 1..i OBVIOUS
  <2>3. \E j \in 1..(k - 1) : Unbroken(g, k, i) /\ Repeats(g, k, j)
        BY <1>2, <1>4, <2>1, <2>2
  <2> QED BY <2>3 DEF TruthAt
<1>6. ASSUME NEW j \in 1..i, SeriesAt(h, j, i) PROVE SeriesAt(g, j, i)
  <2>1. \A k \in j..i : g[k] = h[k] OBVIOUS
  <2> QED BY <1>1, <1>6, <2>1 DEF SeriesAt, BreaksAt
<1> QED BY <1>3, <1>5, <1>6

\* The call that is blocked is that of the last result.
LEMMA BlockedCall ==
    ASSUME NEW h \in Seq(Messages), NEW c \in PreviousSignature(h)
    PROVE  \E p \in DOMAIN h :
              /\ IsResult(h[p]) /\ h[p].call = c
              /\ \A q \in DOMAIN h : IsResult(h[q]) => q <= p
BY DEF PreviousSignature, Results

\* Messages come after the history, and the refused calls among them are the
\* one that was answered last; no message of the model comes before them.
LEMMA FaithfulGrows ==
    ASSUME NEW h \in Seq(Messages), Faithful(h), NEW t \in Seq(Messages),
           \A k \in DOMAIN t :
               /\ t[k].kind # "stopped"
               /\ IsRefusal(t[k]) => /\ t[k].call \in PreviousSignature(h) \cap Research
                                     /\ \A l \in 1..k : t[l].kind # "ai"
    PROVE  Faithful(h \o t)
<1> DEFINE g == h \o t
           n == Len(h)
<1>1. /\ n \in Nat /\ Len(t) \in Nat /\ g \in Seq(Messages)
      /\ DOMAIN h = 1..n /\ DOMAIN t = 1..Len(t) /\ DOMAIN g = 1..(n + Len(t))
      /\ \A i \in 1..n : g[i] = h[i]
      /\ \A i \in (n + 1)..(n + Len(t)) : i - n \in 1..Len(t) /\ g[i] = t[i - n]
      BY Appended
<1> HIDE DEF g, n
<1>2. ASSUME NEW i \in 1..n
      PROVE  OriginAt(g, i) /\ TruthAt(g, i) /\ \A j \in 1..i : SeriesAt(g, j, i)
  <2>1. i \in Nat \ {0} /\ \A j \in 1..i : g[j] = h[j] BY <1>1
  <2>2. OriginAt(h, i) /\ TruthAt(h, i) /\ \A j \in 1..i : SeriesAt(h, j, i)
    <3>1. i \in DOMAIN h /\ \A j \in 1..i : j \in DOMAIN h BY <1>1
    <3> QED BY <3>1 DEF Faithful
  <2> QED BY <2>1, <2>2, TruthStays
<1>3. ASSUME NEW i \in (n + 1)..(n + Len(t))
      PROVE  /\ g[i].kind # "stopped"
             /\ IsRefusal(g[i]) =>
                  /\ g[i].call \in Research
                  /\ \E p \in 1..n :
                        /\ IsResult(h[p]) /\ h[p].call = g[i].call
                        /\ \A q \in 1..n : IsResult(h[q]) => q <= p
                  /\ \A l \in (n + 1)..i : g[l].kind # "ai"
  <2>1. i - n \in DOMAIN t /\ g[i] = t[i - n] BY <1>1
  <2>2. \A l \in (n + 1)..i : l - n \in 1..(i - n) /\ g[l] = t[l - n] BY <1>1
  <2>3. t[i - n].kind # "stopped" BY <2>1
  <2> SUFFICES ASSUME IsRefusal(g[i])
               PROVE  /\ g[i].call \in Research
                      /\ \E p \in 1..n :
                            /\ IsResult(h[p]) /\ h[p].call = g[i].call
                            /\ \A q \in 1..n : IsResult(h[q]) => q <= p
                      /\ \A l \in (n + 1)..i : g[l].kind # "ai"
      BY <2>1, <2>3
  <2>4. /\ g[i].call \in PreviousSignature(h) /\ g[i].call \in Research
        /\ \A l \in 1..(i - n) : t[l].kind # "ai"
        BY <2>1
  <2>5. \A l \in (n + 1)..i : g[l].kind # "ai" BY <2>2, <2>4
  <2> QED BY <1>1, <2>4, <2>5, BlockedCall
<1>4. ASSUME NEW i \in (n + 1)..(n + Len(t)) PROVE OriginAt(g, i)
  <2> SUFFICES ASSUME IsRefusal(g[i])
               PROVE  g[i].call \in Research /\ \E j \in 1..(i - 1) : Repeats(g, i, j)
      BY DEF OriginAt
  <2>1. PICK p \in 1..n : /\ IsResult(h[p]) /\ h[p].call = g[i].call
                          /\ \A q \in 1..n : IsResult(h[q]) => q <= p
        BY <1>3
  <2>2. p \in 1..(i - 1) /\ g[p] = h[p] BY <1>1
  <2>3. ASSUME NEW m \in (p + 1)..(i - 1), IsResult(g[m]), NEW x \in m..i
        PROVE  g[x].kind # "ai"
    <3>1. ~(m <= n) BY <1>1, <2>1, <2>3
    <3>2. x \in (n + 1)..i BY <1>1, <3>1
    <3> QED BY <1>3, <3>2
  <2> QED BY <1>3, <2>1, <2>2, <2>3 DEF Repeats
<1>5. ASSUME NEW i \in (n + 1)..(n + Len(t)), NEW j \in 1..i PROVE SeriesAt(g, j, i)
  <2> SUFFICES ASSUME IsRefusal(g[j]), IsRefusal(g[i]), \A k \in j..i : ~BreaksAt(g, k)
               PROVE  g[j].call = g[i].call
      BY DEF SeriesAt
  <2>1. PICK p \in 1..n : /\ IsResult(h[p]) /\ h[p].call = g[i].call
                          /\ \A q \in 1..n : IsResult(h[q]) => q <= p
        BY <1>3
  <2>2. CASE j \in 1..n
    <3>1. g[j] = h[j] /\ IsResult(h[j]) BY <1>1, <2>2 DEF IsRefusal, IsResult
    <3>2. j <= p /\ p \in j..i BY <1>1, <2>1, <2>2, <3>1
    <3>3. g[p] = h[p] BY <1>1
    <3>4. IsRefusal(g[p]) BY <2>1, <3>2, <3>3 DEF BreaksAt, FromModel, IsResult
    <3>5. SeriesAt(g, j, p) BY <1>2, <2>2, <3>2
    <3>6. \A k \in j..p : k \in j..i BY <1>1, <3>2
    <3>7. g[j].call = g[p].call BY <3>2, <3>4, <3>5, <3>6 DEF SeriesAt
    <3> QED BY <2>1, <3>3, <3>7
  <2>3. CASE j \in (n + 1)..(n + Len(t))
    <3>1. PICK q \in 1..n : /\ IsResult(h[q]) /\ h[q].call = g[j].call
                            /\ \A x \in 1..n : IsResult(h[x]) => x <= q
          BY <1>3, <2>3
    <3>2. p = q BY <1>1, <2>1, <3>1
    <3> QED BY <2>1, <3>1, <3>2
  <2> QED BY <1>1, <2>2, <2>3
<1>6. \A i \in DOMAIN g : i \in 1..n \/ i \in (n + 1)..(n + Len(t)) BY <1>1
<1>7. \A i \in DOMAIN g : OriginAt(g, i) BY <1>2, <1>4, <1>6
<1>8. \A i \in DOMAIN g : TruthAt(g, i) BY <1>2, <1>3, <1>6 DEF TruthAt
<1>9. \A i, j \in DOMAIN g : SeriesAt(g, i, j)
  <2> TAKE i, j \in DOMAIN g
  <2>1. CASE i <= j
    <3>1. i \in 1..j BY <1>1, <2>1
    <3> QED BY <1>2, <1>5, <1>6, <3>1
  <2>2. CASE ~(i <= j) BY <2>2 DEF SeriesAt
  <2> QED BY <2>1, <2>2
<1> QED BY <1>7, <1>8, <1>9 DEF Faithful, g

\* The trailing refusals are of one call, which was answered before them, and
\* nothing else is between the first of them and the end.
LEMMA TrailIsOneCall ==
    ASSUME NEW h \in Seq(Messages), Faithful(h), NEW f \in TrailingRefusals(h),
           \A j \in TrailingRefusals(h) : f <= j
    PROVE  /\ h[f].call \in Research
           /\ TrailingRefusals(h) = RefusedIn(h, f, Len(h))
           /\ \A i \in f..Len(h) : FromModel(h[i]) \/ h[i] = Result(h[f].call, "refused")
           /\ h[f] = Result(h[f].call, "refused")
           /\ \E j \in 1..(f - 1) : Repeats(h, f, j)
<1> DEFINE T == TrailingRefusals(h)
           n == Len(h)
<1>1. n \in Nat /\ DOMAIN h = 1..n /\ \A i \in 1..n : h[i] \in Messages
      BY LenProperties, ElementOfSeq
<1>2. \A i \in T : i \in 1..n /\ IsRefusal(h[i]) /\ \A j \in i..n : ~BreaksAt(h, j)
      BY <1>1 DEF TrailingRefusals, BreaksAt
<1>3. \A i \in 1..n : IsRefusal(h[i]) /\ (\A j \in i..n : ~BreaksAt(h, j)) => i \in T
      BY <1>1 DEF TrailingRefusals, BreaksAt
<1> HIDE DEF n, T
<1>4. f \in T /\ (\A i \in T : f <= i) /\ f \in 1..n BY <1>2 DEF T
<1>5. ASSUME NEW i \in f..n, IsRefusal(h[i]) PROVE i \in T
  <2>1. \A j \in i..n : j \in f..n BY <1>1, <1>4
  <2> QED BY <1>1, <1>2, <1>3, <1>4, <1>5, <2>1
<1>6. T = RefusedIn(h, f, n)
  <2>1. \A i \in T : i \in f..n /\ IsRefusal(h[i]) BY <1>1, <1>2, <1>4
  <2> QED BY <1>5, <2>1 DEF RefusedIn
<1>7. ASSUME NEW i \in T PROVE h[i] = Result(h[f].call, "refused")
  <2>1. SeriesAt(h, f, i) BY <1>1, <1>2, <1>4 DEF Faithful
  <2>2. \A k \in f..i : ~BreaksAt(h, k)
    <3>1. \A k \in f..i : k \in f..n BY <1>1, <1>2, <1>4
    <3> QED BY <1>2, <1>4, <3>1
  <2>3. h[f].call = h[i].call BY <1>2, <1>4, <2>1, <2>2 DEF SeriesAt
  <2>4. h[i].kind = "tool" /\ h[i].how = "refused" /\ h[i] \in Messages
        BY <1>1, <1>2 DEF IsRefusal
  <2>5. h[i] = Result(h[i].call, "refused") BY <2>4, Fields
  <2> QED BY <2>3, <2>5
<1>8. ASSUME NEW i \in f..n PROVE FromModel(h[i]) \/ h[i] = Result(h[f].call, "refused")
  <2>1. ~BreaksAt(h, i) BY <1>2, <1>4
  <2> QED BY <1>5, <1>7, <2>1 DEF BreaksAt
<1>9. h[f].call \in Research /\ \E j \in 1..(f - 1) : Repeats(h, f, j)
      BY <1>1, <1>2, <1>4 DEF Faithful, OriginAt
<1> QED BY <1>4, <1>6, <1>7, <1>8, <1>9 DEF T, n

\* The run is stopped: the message counts the trailing refusals and the call
\* that is refused next.
LEMMA StopIsFaithful ==
    ASSUME NEW h \in Seq(Messages), Faithful(h), NEW f \in TrailingRefusals(h),
           \A j \in TrailingRefusals(h) : f <= j,
           NEW m, m = Stopped(h[f].call, Cardinality(TrailingRefusals(h)) + 1)
    PROVE  m \in Messages /\ Faithful(Append(h, m))
<1> DEFINE T == TrailingRefusals(h)
           n == Len(h)
           g == Append(h, m)
<1>1. n \in Nat /\ DOMAIN h = 1..n BY LenProperties
<1>2. T \subseteq 1..n /\ f \in 1..n BY <1>1 DEF TrailingRefusals
<1>3. IsFiniteSet(T) /\ Cardinality(T) \in Nat
  <2>1. IsFiniteSet(1..n) BY <1>1, FS_Interval
  <2>2. IsFiniteSet(T) BY <1>2, <2>1, FS_Subset
  <2> QED BY <2>2, FS_CardinalityType
<1>4. /\ h[f].call \in Research /\ h[f] = Result(h[f].call, "refused")
      /\ T = RefusedIn(h, f, n)
      /\ \A i \in f..n : FromModel(h[i]) \/ h[i] = Result(h[f].call, "refused")
      /\ \E j \in 1..(f - 1) : Repeats(h, f, j)
      BY TrailIsOneCall
<1> HIDE DEF T, n
<1>5. /\ m \in Messages /\ m.kind = "stopped" /\ m.call = h[f].call
      /\ m.count = Cardinality(T) + 1
      BY <1>3, <1>4, Kinds DEF T
<1>6. /\ g \in Seq(Messages) /\ DOMAIN g = 1..(n + 1)
      /\ \A i \in 1..n : g[i] = h[i]
      /\ g[n + 1] = m
      BY <1>1, <1>5, AppendProperties, LenProperties DEF n
<1> HIDE DEF g
<1>7. ASSUME NEW i \in 1..n
      PROVE  OriginAt(g, i) /\ TruthAt(g, i) /\ \A j \in 1..i : SeriesAt(g, j, i)
  <2>1. i \in Nat \ {0} /\ \A j \in 1..i : g[j] = h[j] BY <1>1, <1>6
  <2>2. OriginAt(h, i) /\ TruthAt(h, i) /\ \A j \in 1..i : SeriesAt(h, j, i)
    <3>1. i \in DOMAIN h /\ \A j \in 1..i : j \in DOMAIN h BY <1>1
    <3> QED BY <3>1 DEF Faithful
  <2> QED BY <2>1, <2>2, TruthStays
<1>8. ~IsRefusal(g[n + 1]) /\ FromModel(g[n + 1])
      BY <1>5, <1>6 DEF IsRefusal, FromModel
<1>9. RefusedIn(g, f, n + 1) = T
  <2>1. \A x \in f..(n + 1) : (x \in f..n /\ g[x] = h[x]) \/ x = n + 1 BY <1>1, <1>2, <1>6
  <2>2. \A x \in f..n : x \in f..(n + 1) /\ g[x] = h[x] BY <1>1, <1>2, <1>6
  <2> QED BY <1>4, <1>8, <2>1, <2>2 DEF RefusedIn
<1>10. Unbroken(g, f, n + 1)
  <2>1. m.count - 1 = Cardinality(T) BY <1>3, <1>5
  <2>2. ASSUME NEW x \in f..(n + 1)
        PROVE  FromModel(g[x]) \/ g[x] = Result(h[f].call, "refused")
    <3>1. CASE x = n + 1 BY <1>8, <3>1
    <3>2. CASE x # n + 1
      <4>1. x \in f..n /\ g[x] = h[x] BY <1>1, <1>2, <1>6, <3>2
      <4> QED BY <1>4, <4>1
    <3> QED BY <3>1, <3>2
  <2> QED BY <1>2, <1>4, <1>5, <1>6, <1>9, <2>1, <2>2 DEF Unbroken
<1>11. TruthAt(g, n + 1)
  <2>1. PICK j \in 1..(f - 1) : Repeats(h, f, j) BY <1>4
  <2>2. Repeats(g, f, j)
    <3>1. \A x \in 1..f : g[x] = h[x] BY <1>1, <1>2, <1>6
    <3>2. j \in 1..f /\ f \in 1..f BY <1>2, <2>1
    <3>3. \A x \in (j + 1)..(f - 1) : x \in 1..f /\ \A y \in x..f : y \in 1..f
          BY <1>2, <2>1
    <3> QED BY <2>1, <3>1, <3>2, <3>3 DEF Repeats
  <2>3. f \in 1..((n + 1) - 1) BY <1>1, <1>2
  <2>4. \E k \in 1..((n + 1) - 1) : \E x \in 1..(k - 1) :
           Unbroken(g, k, n + 1) /\ Repeats(g, k, x)
    <3> WITNESS f \in 1..((n + 1) - 1)
    <3> QED BY <1>10, <2>1, <2>2
  <2> QED BY <2>4 DEF TruthAt
<1>12. OriginAt(g, n + 1) BY <1>8 DEF OriginAt
<1>13. \A j \in 1..(n + 1) : SeriesAt(g, j, n + 1) BY <1>8 DEF SeriesAt
<1>14. \A i \in 1..(n + 1) : i \in 1..n \/ i = n + 1 BY <1>1
<1>15. \A i, j \in DOMAIN g : SeriesAt(g, i, j)
  <2> TAKE i, j \in DOMAIN g
  <2>1. CASE i <= j
    <3>1. i \in 1..j BY <1>1, <1>6, <2>1
    <3> QED BY <1>6, <1>7, <1>13, <1>14, <3>1
  <2>2. CASE ~(i <= j) BY <2>2 DEF SeriesAt
  <2> QED BY <2>1, <2>2
<1>16. \A i \in DOMAIN g : OriginAt(g, i) /\ TruthAt(g, i)
       BY <1>6, <1>7, <1>11, <1>12, <1>14
<1> QED BY <1>5, <1>15, <1>16 DEF Faithful, g

-----------------------------------------------------------------------------
(* The steps.                                                              *)

\* The run begins with its task.
LEMMA SoundInit == Init => Sound
<1> SUFFICES ASSUME Init PROVE Sound OBVIOUS
<1> USE DEF Init
<1>1. Human("task") \in Messages /\ Human("task").kind = "human" BY Kinds
<1>2. msgs \in Seq(Messages) /\ DOMAIN msgs = {1} /\ msgs[1] = Human("task") BY <1>1
<1>3. TypeOK
  <2>1. malformed \in 0..MaxMalformed /\ steers \in 0..MaxSteers /\ spent \in Nat
        BY LimitsAssumption
  <2>2. place \in Places /\ place # "done" BY DEF Places
  <2>3. outcome = NoOutcome /\ evidence \subseteq Evidence /\ report \in BOOLEAN OBVIOUS
  <2> HIDE DEF Init
  <2> QED BY <1>2, <2>1, <2>2, <2>3 DEF TypeOK
<1>4. Budget BY LimitsAssumption DEF Budget
<1>5. NotLimited BY <1>1, <1>2 DEF NotLimited, Result
<1>6. Refusals
      BY <1>1, <1>2 DEF Refusals, Faithful, OriginAt, TruthAt, SeriesAt, IsRefusal
<1> QED BY <1>3, <1>4, <1>5, <1>6 DEF Sound, Called, Reason

\* A step appends messages that are no stop.
LEMMA HistoryGrows ==
    ASSUME Sound, NEW t \in Seq(Messages), t # <<>>, msgs' = msgs \o t,
           \A k \in DOMAIN t :
               /\ t[k].kind # "stopped" /\ t[k] # Result(Report, "limited")
               /\ IsRefusal(t[k]) => /\ t[k].call \in PreviousSignature(msgs) \cap Research
                                     /\ \A l \in 1..k : t[l].kind # "ai"
    PROVE  /\ msgs' \in Seq(Messages) /\ Refusals' /\ NotLimited'
           /\ Last(msgs') = t[Len(t)]
<1>1. msgs \in Seq(Messages) /\ Faithful(msgs) BY DEF Sound, TypeOK, Refusals
<1>2. Faithful(msgs \o t) BY <1>1, FaithfulGrows
<1>3. Refusals' BY <1>2 DEF Refusals
<1>4. /\ msgs' \in Seq(Messages) /\ Len(msgs') = Len(msgs) + Len(t)
      /\ Len(msgs) \in Nat /\ Len(t) \in Nat
      /\ DOMAIN msgs = 1..Len(msgs) /\ DOMAIN t = 1..Len(t)
      /\ DOMAIN msgs' = 1..(Len(msgs) + Len(t))
      /\ \A i \in 1..Len(msgs) : msgs'[i] = msgs[i]
      /\ \A i \in (Len(msgs) + 1)..(Len(msgs) + Len(t)) :
            i - Len(msgs) \in 1..Len(t) /\ msgs'[i] = t[i - Len(msgs)]
      BY <1>1, Appended
<1>5. ASSUME NEW i \in 1..(Len(msgs) + Len(t)) PROVE msgs'[i] # Result(Report, "limited")
  <2>1. CASE i \in 1..Len(msgs) BY <1>4, <2>1 DEF Sound, NotLimited
  <2>2. CASE i \in (Len(msgs) + 1)..(Len(msgs) + Len(t)) BY <1>4, <2>2
  <2> QED BY <1>4, <2>1, <2>2
<1>6. NotLimited' BY <1>4, <1>5 DEF NotLimited
<1>7. Len(t) # 0 BY EmptySeq
<1>8. Len(msgs) + Len(t) - Len(msgs) = Len(t)
      /\ Len(msgs) + Len(t) \in (Len(msgs) + 1)..(Len(msgs) + Len(t))
      BY <1>4, <1>7
<1>9. Last(msgs') = t[Len(t)] BY <1>4, <1>8 DEF Last
<1> QED BY <1>3, <1>4, <1>6, <1>9

\* One message of the user or the guard.
LEMMA OneMessage ==
    ASSUME Sound, NEW m \in Messages, m.kind \in {"human", "ai"}, msgs' = Append(msgs, m)
    PROVE  /\ msgs' \in Seq(Messages) /\ Refusals' /\ NotLimited'
           /\ Last(msgs') = m
<1>1. msgs' = msgs \o <<m>> BY AppendIsConcat DEF Sound, TypeOK
<1>2. /\ <<m>> \in Seq(Messages) /\ <<m>> # <<>> /\ Len(<<m>>) = 1
      /\ DOMAIN <<m>> = {1} /\ <<m>>[1] = m
      OBVIOUS
<1>3. m.kind # "stopped" /\ m # Result(Report, "limited") /\ ~IsRefusal(m)
      BY DEF Result, IsRefusal
<1> DEFINE t == <<m>>
<1> HIDE DEF t
<1>4. /\ t \in Seq(Messages) /\ t # <<>> /\ Len(t) = 1 /\ DOMAIN t = {1} /\ t[1] = m
      /\ msgs' = msgs \o t
      BY <1>1, <1>2 DEF t
<1> QED BY <1>3, <1>4, HistoryGrows

\* after_model's two messages.
LEMMA TwoMessages ==
    ASSUME Sound, NEW m \in Messages, NEW k \in Messages, msgs' = msgs \o <<m, k>>,
           m.kind = "ai", k.kind \in {"human", "tool"},
           ~IsRefusal(k), k # Result(Report, "limited")
    PROVE  /\ msgs' \in Seq(Messages) /\ Refusals' /\ NotLimited'
           /\ Last(msgs') = k
<1> DEFINE t == <<m, k>>
<1>1. /\ t \in Seq(Messages) /\ t # <<>> /\ Len(t) = 2 /\ DOMAIN t = {1, 2}
      /\ t[1] = m /\ t[2] = k
      OBVIOUS
<1>2. msgs' = msgs \o t OBVIOUS
<1> HIDE DEF t
<1>3. m # Result(Report, "limited") /\ ~IsRefusal(m) BY DEF Result, IsRefusal
<1>4. \A i \in DOMAIN t :
         /\ t[i].kind # "stopped" /\ t[i] # Result(Report, "limited")
         /\ ~IsRefusal(t[i])
      BY <1>1, <1>3
<1> QED BY <1>1, <1>2, <1>4, HistoryGrows

\* A correction by the user ends every series; without one the run is stopped
\* when the series is long enough.
LEMMA SoundBefore == ASSUME Sound, BeforeModel PROVE Sound'
<1> USE DEF Sound, BeforeModel
<1>1. PICK steer \in BOOLEAN :
          LET history == IF steer THEN Append(msgs, Human("steer")) ELSE msgs
              refusals == TrailingRefusals(history)
          IN /\ steer => steers < MaxSteers
             /\ steers' = IF steer THEN steers + 1 ELSE steers
             /\ IF Cardinality(refusals) < RepeatLimit
                THEN place' = "model" /\ msgs' = history
                ELSE /\ place' = "exit"
                     /\ msgs' = Append(history,
                            Stopped(history[CHOOSE i \in refusals :
                                        \A j \in refusals : i <= j].call,
                                    Cardinality(refusals) + 1))
      OBVIOUS
<1>2. steers' \in 0..MaxSteers BY <1>1, LimitsAssumption DEF TypeOK
<1>3. CASE steer
  <2> DEFINE h == Append(msgs, Human("steer"))
  <2>1. Human("steer") \in Messages /\ Human("steer").kind = "human" BY Kinds
  <2>2. /\ h \in Seq(Messages) /\ Len(h) = Len(msgs) + 1 /\ Len(msgs) \in Nat
        /\ h[Len(h)] = Human("steer")
        BY <2>1, AppendProperties, LenProperties DEF TypeOK
  <2> HIDE DEF h
  <2>3. TrailingRefusals(h) = {}
    <3> SUFFICES ASSUME NEW i \in TrailingRefusals(h) PROVE FALSE OBVIOUS
    <3>1. i \in 1..Len(h) /\ BreaksAt(h, Len(h)) /\ DOMAIN h = 1..Len(h)
          BY <2>1, <2>2, LenProperties
          DEF TrailingRefusals, BreaksAt, FromModel, IsRefusal
    <3>2. Len(h) \in i..Len(h) BY <2>2, <3>1
    <3> QED BY <3>1, <3>2 DEF TrailingRefusals, BreaksAt
  <2>4. Cardinality(TrailingRefusals(h)) < RepeatLimit
        BY <2>3, FS_EmptySet, LimitsAssumption
  <2>5. place' = "model" /\ msgs' = h BY <1>1, <1>3, <2>4 DEF h
  <2>6. msgs' \in Seq(Messages) /\ Refusals' /\ NotLimited'
        BY <2>1, <2>5, OneMessage DEF h
  <2>7. TypeOK' BY <1>2, <2>5, <2>6 DEF TypeOK, Places
  <2>8. Budget' BY <2>5 DEF Budget
  <2> QED BY <2>5, <2>6, <2>7, <2>8 DEF Called, Reason
<1>4. CASE ~steer /\ Cardinality(TrailingRefusals(msgs)) < RepeatLimit
  <2>1. place' = "model" /\ msgs' = msgs BY <1>1, <1>4
  <2>2. Refusals' /\ NotLimited' BY <2>1 DEF Refusals, NotLimited
  <2>3. TypeOK' BY <1>2, <2>1 DEF TypeOK, Places
  <2>4. Budget' BY <2>1 DEF Budget
  <2> QED BY <2>1, <2>2, <2>3, <2>4 DEF Called, Reason
<1>5. CASE ~steer /\ ~(Cardinality(TrailingRefusals(msgs)) < RepeatLimit)
  <2> DEFINE T == TrailingRefusals(msgs)
             f == CHOOSE i \in T : \A j \in T : i <= j
             m == Stopped(msgs[f].call, Cardinality(T) + 1)
  <2>1. T # {}
    <3>1. ~(0 < RepeatLimit) => FALSE BY LimitsAssumption
    <3> QED BY <1>5, <3>1, FS_EmptySet
  <2>2. T \in SUBSET Nat BY LenProperties DEF TrailingRefusals, TypeOK
  <2>3. f \in T /\ \A j \in T : f <= j
    <3>1. \E i \in T : \A j \in T : i <= j BY <2>1, <2>2, LeastNumber
    <3> QED BY <3>1
  <2>4. place' = "exit" /\ msgs' = Append(msgs, m) BY <1>1, <1>5
  <2> HIDE DEF f
  <2>5. m \in Messages /\ Faithful(Append(msgs, m))
        BY <2>3, StopIsFaithful DEF TypeOK, Refusals
  <2>6. m.kind = "stopped" BY DEF Stopped
  <2> HIDE DEF m, T
  <2>7. /\ msgs' \in Seq(Messages) /\ Len(msgs') = Len(msgs) + 1 /\ Len(msgs) \in Nat
        /\ msgs'[Len(msgs) + 1] = m /\ DOMAIN msgs' = 1..(Len(msgs) + 1)
        /\ \A i \in 1..Len(msgs) : i \in DOMAIN msgs /\ msgs'[i] = msgs[i]
        BY <2>4, <2>5, AppendProperties, LenProperties DEF TypeOK
  <2>8. Refusals' BY <2>4, <2>5 DEF Refusals
  <2>9. NotLimited'
    <3>1. m # Result(Report, "limited") BY <2>6 DEF Result
    <3>2. \A i \in DOMAIN msgs' : i \in 1..Len(msgs) \/ i = Len(msgs) + 1 BY <2>7
    <3> QED BY <2>7, <3>1, <3>2 DEF NotLimited
  <2>10. Last(msgs').kind = "stopped" BY <2>6, <2>7 DEF Last
  <2>11. TypeOK' BY <1>2, <2>4, <2>7 DEF TypeOK, Places
  <2> QED BY <2>4, <2>8, <2>9, <2>10, <2>11 DEF Budget, Called, Reason
<1> QED BY <1>3, <1>4, <1>5

\* A plain answer is the reason for the end when the reminder is there.
LEMMA SoundAnswers == ASSUME Sound, ModelAnswers PROVE Sound'
<1> USE DEF Sound, ModelAnswers
<1>1. <<>> \in SeqOf(Research \cup {Report}, MaxParallel)
  <2> DEFINE calls == <<>>
  <2>1. calls \in Seq(Research \cup {Report}) /\ Len(calls) = 0 OBVIOUS
  <2> HIDE DEF calls
  <2>2. MaxParallel \in Nat /\ Len(calls) <= MaxParallel BY <2>1, LimitsAssumption
  <2>3. calls \in SeqOf(Research \cup {Report}, MaxParallel) BY <2>1, <2>2, Short
  <2> QED BY <2>3 DEF calls
<1>2. AI(<<>>) \in Messages /\ AI(<<>>).kind = "ai" BY <1>1, Kinds
<1>3. Human("reminder") \in Messages /\ Human("reminder").kind = "human" BY Kinds
<1>4. CASE Reminded
  <2>1. place' = "exit" /\ msgs' = Append(msgs, AI(<<>>)) BY <1>4
  <2>2. msgs' \in Seq(Messages) /\ Refusals' /\ NotLimited' /\ Last(msgs') = AI(<<>>)
        BY <1>2, <2>1, OneMessage
  <2>3. PICK i \in DOMAIN msgs : msgs[i] = Human("reminder") BY <1>4 DEF Reminded
  <2>4. /\ Len(msgs') = Len(msgs) + 1 /\ Len(msgs) \in Nat /\ i \in 1..Len(msgs)
        /\ msgs'[i] = msgs[i]
        BY <1>2, <2>1, AppendProperties, LenProperties DEF TypeOK
  <2>5. i \in 1..(Len(msgs') - 1) BY <2>4
  <2>6. TypeOK' BY <2>1, <2>2 DEF TypeOK, Places
  <2> QED BY <2>1, <2>2, <2>3, <2>4, <2>5, <2>6 DEF Budget, Called, Reason
<1>5. CASE ~Reminded
  <2>1. place' = "before" /\ msgs' = msgs \o <<AI(<<>>), Human("reminder")>> BY <1>5
  <2>2. ~IsRefusal(Human("reminder")) /\ Human("reminder") # Result(Report, "limited")
        BY <1>3 DEF IsRefusal, Result
  <2>3. msgs' \in Seq(Messages) /\ Refusals' /\ NotLimited'
        BY <1>2, <1>3, <2>1, <2>2, TwoMessages
  <2>4. TypeOK' BY <2>1, <2>3 DEF TypeOK, Places
  <2>5. Budget' BY <2>1 DEF Budget
  <2> QED BY <2>1, <2>3, <2>4, <2>5 DEF Called, Reason
<1> QED BY <1>4, <1>5

\* The budget still has room for the report.
LEMMA SoundReports ==
    ASSUME Sound, NEW valid \in BOOLEAN, ModelReports(valid)
    PROVE  Sound'
<1> USE DEF Sound, ModelReports
<1> DEFINE how == IF valid THEN "ran" ELSE "malformed"
<1>1. malformed' \in 0..MaxMalformed /\ (valid => malformed' = malformed)
      /\ (~valid => malformed' = malformed + 1)
      BY LimitsAssumption DEF TypeOK
<1>2. spent < ToolLimit
  <2>1. spent + Reserve + 1 <= ToolLimit + MaxParallel + malformed BY DEF Budget
  <2>2. malformed \in 0..MaxMalformed /\ spent \in Nat BY DEF TypeOK
  <2> QED BY <2>1, <2>2, LimitsAssumption
<1>3. /\ report' = valid
      /\ place' = IF valid THEN "exit" ELSE "before"
      /\ msgs' = msgs \o <<AI(<<Report>>), Result(Report, how)>>
  <2>1. ~(spent >= ToolLimit) BY <1>2, LimitsAssumption DEF TypeOK
  <2>2. CASE valid BY <2>1, <2>2
  <2>3. CASE ~valid BY <2>1, <2>3
  <2> QED BY <2>2, <2>3
<1>4. <<Report>> \in SeqOf(Research \cup {Report}, MaxParallel)
  <2> DEFINE calls == <<Report>>
  <2>1. calls \in Seq(Research \cup {Report}) /\ Len(calls) = 1 OBVIOUS
  <2> HIDE DEF calls
  <2>2. MaxParallel \in Nat /\ Len(calls) <= MaxParallel BY <2>1, LimitsAssumption
  <2>3. calls \in SeqOf(Research \cup {Report}, MaxParallel) BY <2>1, <2>2, Short
  <2> QED BY <2>3 DEF calls
<1>5. AI(<<Report>>) \in Messages /\ AI(<<Report>>).kind = "ai" BY <1>4, Kinds
<1>6. /\ Result(Report, how) \in Messages /\ Result(Report, how).kind = "tool"
      /\ Result(Report, how).how = how
      BY Kinds
<1>7. ~IsRefusal(Result(Report, how)) /\ Result(Report, how) # Result(Report, "limited")
      BY <1>6 DEF IsRefusal, Result
<1>8. msgs' \in Seq(Messages) /\ Refusals' /\ NotLimited'
      BY <1>3, <1>5, <1>6, <1>7, TwoMessages
<1>9. TypeOK' BY <1>1, <1>3, <1>8 DEF TypeOK, Places
<1>10. Budget'
  <2>1. CASE valid BY <1>3, <2>1 DEF Budget
  <2>2. CASE ~valid
    <3>1. spent + Reserve + 1 <= ToolLimit + MaxParallel + malformed BY DEF Budget
    <3>2. spent + 1 + Reserve + 1 <= ToolLimit + MaxParallel + (malformed + 1)
          BY <3>1, LimitsAssumption DEF TypeOK
    <3> QED BY <1>1, <2>2, <3>2 DEF Budget
  <2> QED BY <2>1, <2>2
<1> QED BY <1>3, <1>8, <1>9, <1>10 DEF Called, Reason

\* Part of a sequence.
LEMMA PartOf ==
    ASSUME NEW S, NEW s \in Seq(S), NEW i \in Nat \ {0}, NEW j \in Int, j <= Len(s)
    PROVE  SubSeq(s, i, j) \in Seq(S) /\ Len(SubSeq(s, i, j)) <= Len(s)
<1>1. Len(s) \in Nat /\ \A k \in 1..Len(s) : s[k] \in S BY LenProperties, ElementOfSeq
<1>2. \A k \in i..j : k \in 1..Len(s) BY <1>1
<1>3. i \in Int /\ \A k \in i..j : s[k] \in S BY <1>1, <1>2
<1>4. /\ SubSeq(s, i, j) \in Seq(S)
      /\ Len(SubSeq(s, i, j)) = IF i <= j THEN j - i + 1 ELSE 0
      BY <1>3, SubSeqProperties
<1> QED BY <1>1, <1>4

\* One message before others.
LEMMA OneThen ==
    ASSUME NEW S, NEW x \in S, NEW r \in Seq(S)
    PROVE  /\ <<x>> \o r \in Seq(S) /\ Len(<<x>> \o r) = 1 + Len(r) /\ Len(r) \in Nat
           /\ DOMAIN (<<x>> \o r) = 1..(1 + Len(r)) /\ (<<x>> \o r)[1] = x
           /\ \A k \in 2..(1 + Len(r)) : k - 1 \in DOMAIN r /\ (<<x>> \o r)[k] = r[k - 1]
<1> DEFINE one == <<x>>
           t == one \o r
<1>1. one \in Seq(S) /\ Len(one) = 1 /\ one[1] = x OBVIOUS
<1> HIDE DEF one
<1>2. /\ t \in Seq(S) /\ Len(t) = Len(one) + Len(r) /\ Len(r) \in Nat
      /\ DOMAIN r = 1..Len(r) /\ DOMAIN t = 1..(Len(one) + Len(r))
      BY <1>1, Appended
<1>3. /\ \A k \in 1..Len(one) : t[k] = one[k]
      /\ \A k \in (Len(one) + 1)..(Len(one) + Len(r)) :
            k - Len(one) \in 1..Len(r) /\ t[k] = r[k - Len(one)]
      BY <1>1, Appended
<1> HIDE DEF t
<1> QED BY <1>1, <1>2, <1>3 DEF t, one

\* The model's message, and what the limit answers for the calls it refuses.
LEMMA SoundCalls ==
    ASSUME Sound, NEW calls \in SeqOf(Research, MaxParallel) \ {<<>>}, ModelCalls(calls)
    PROVE  Sound'
<1> USE DEF Sound, ModelCalls
<1>1. calls \in Seq(Research) /\ Len(calls) \in 1..MaxParallel
  <2>1. calls \in Seq(Research) /\ Len(calls) <= MaxParallel BY Short, LimitsAssumption
  <2> QED BY <2>1, EmptySeq, LenProperties, LimitsAssumption
<1>2. AI(calls) \in Messages /\ AI(calls).kind = "ai" /\ AI(calls).calls = calls
  <2>1. calls \in Seq(Research \cup {Report}) BY <1>1
  <2>2. MaxParallel \in Nat /\ Len(calls) <= MaxParallel BY <1>1, LimitsAssumption
  <2>3. calls \in SeqOf(Research \cup {Report}, MaxParallel) BY <2>1, <2>2, Short
  <2> QED BY <2>3, Kinds
<1> DEFINE refused == ResultsOf(Limited(calls), "limited")
<1>3. /\ refused \in Seq(Messages)
      /\ \A k \in DOMAIN refused :
            /\ refused[k].kind = "tool" /\ ~IsRefusal(refused[k])
            /\ refused[k] # Result(Report, "limited")
  <2> DEFINE out == Limited(calls)
  <2>1. Len(Allowed(calls)) \in Nat
    <3> DEFINE upto == IF spent + Len(calls) <= ToolLimit THEN Len(calls)
                       ELSE IF spent >= ToolLimit THEN 0 ELSE ToolLimit - spent
    <3>1. upto \in Int /\ upto <= Len(calls) BY <1>1, LimitsAssumption DEF TypeOK
    <3>2. Allowed(calls) = SubSeq(calls, 1, upto) BY DEF Allowed
    <3> HIDE DEF upto
    <3>3. Allowed(calls) \in Seq(Research) BY <1>1, <3>1, <3>2, PartOf
    <3> QED BY <3>3, LenProperties
  <2>2. out \in Seq(Research)
    <3>1. Len(Allowed(calls)) + 1 \in Nat \ {0} /\ Len(calls) \in Int BY <1>1, <2>1
    <3> QED BY <1>1, <3>1, PartOf DEF Limited
  <2> HIDE DEF out
  <2>3. Len(out) \in Nat /\ DOMAIN out = 1..Len(out) /\ \A k \in DOMAIN out : out[k] \in Research
        BY <2>2, LenProperties, ElementOfSeq
  <2>4. \A k \in DOMAIN out :
           /\ Result(out[k], "limited") \in Messages
           /\ Result(out[k], "limited").kind = "tool"
           /\ Result(out[k], "limited").how = "limited"
           /\ Result(out[k], "limited").call = out[k]
        BY <2>3, Kinds
  <2>5. Report \notin Research BY CallsAssumption DEF Report
  <2>6. Result(Report, "limited").call = Report BY DEF Result
  <2>7. refused = [k \in 1..Len(out) |-> Result(out[k], "limited")]
        BY <2>3 DEF ResultsOf, out
  <2> HIDE DEF refused
  <2>8. refused \in Seq(Messages) BY <2>3, <2>4, <2>7
  <2>9. ASSUME NEW k \in DOMAIN refused
        PROVE  /\ refused[k].kind = "tool" /\ refused[k].how = "limited"
               /\ refused[k].call # Report
    <3>1. k \in DOMAIN out /\ refused[k] = Result(out[k], "limited") BY <2>3, <2>7
    <3> QED BY <2>3, <2>4, <2>5, <3>1
  <2> QED BY <2>6, <2>8, <2>9 DEF IsRefusal
<1> DEFINE t == <<AI(calls)>> \o refused
<1> HIDE DEF refused
<1>4. /\ <<AI(calls)>> \in Seq(Messages) /\ Len(<<AI(calls)>>) = 1
      /\ <<AI(calls)>>[1] = AI(calls)
      BY <1>2
<1>5. msgs' = msgs \o t
  <2>1. msgs' = Append(msgs, AI(calls)) \o refused BY DEF refused
  <2>2. Append(msgs, AI(calls)) = msgs \o <<AI(calls)>> BY <1>2, AppendIsConcat DEF TypeOK
  <2> DEFINE one == <<AI(calls)>>
  <2>3. msgs \in Seq(Messages) /\ one \in Seq(Messages) BY <1>4 DEF TypeOK
  <2>4. msgs' = (msgs \o one) \o refused BY <2>1, <2>2
  <2>5. t = one \o refused OBVIOUS
  <2> HIDE DEF one, t
  <2>6. refused \in Seq(Messages) BY <1>3
  <2>7. (msgs \o one) \o refused = msgs \o (one \o refused)
        BY <2>3, <2>6, ConcatAssociative
  <2> QED BY <2>4, <2>5, <2>7
<1>6. /\ t \in Seq(Messages) /\ Len(t) = 1 + Len(refused) /\ Len(refused) \in Nat
      /\ DOMAIN t = 1..(1 + Len(refused)) /\ t[1] = AI(calls)
      /\ \A k \in 2..(1 + Len(refused)) : k - 1 \in DOMAIN refused /\ t[k] = refused[k - 1]
  BY <1>2, <1>3, OneThen
<1> HIDE DEF t
<1>7. \A k \in DOMAIN t :
         /\ t[k].kind # "stopped" /\ ~IsRefusal(t[k]) /\ t[k] # Result(Report, "limited")
         /\ t[k].kind = "ai" => k = 1
  <2> TAKE k \in DOMAIN t
  <2>1. CASE k = 1 BY <1>2, <1>6, <2>1 DEF IsRefusal, Result
  <2>2. CASE k # 1
    <3>1. k \in 2..(1 + Len(refused)) BY <1>6, <2>2
    <3> QED BY <1>3, <1>6, <3>1
  <2> QED BY <2>1, <2>2
<1>8. msgs' \in Seq(Messages) /\ Refusals' /\ NotLimited'
  <2>1. t # <<>> BY <1>6
  <2> QED BY <1>5, <1>6, <1>7, <2>1, HistoryGrows
<1>9. place' \in {"before", "tools"}
  <2>1. CASE Allowed(calls) = <<>> BY <2>1
  <2>2. CASE Allowed(calls) # <<>> BY <2>2
  <2> QED BY <2>1, <2>2
<1>10. spent' = spent + Len(calls) /\ spent' \in Nat /\ malformed' = malformed
       BY <1>1, LimitsAssumption DEF TypeOK
<1>11. TypeOK' BY <1>8, <1>9, <1>10 DEF TypeOK, Places
<1>12. Budget'
  <2>1. spent < ToolLimit - Reserve BY LimitsAssumption DEF ReportOnly, TypeOK
  <2>2. spent + Len(calls) + Reserve + 1 <= ToolLimit + MaxParallel + malformed
        BY <1>1, <2>1, LimitsAssumption DEF TypeOK
  <2> QED BY <1>10, <2>2 DEF Budget
<1>13. Called'
  <2> DEFINE i == Len(msgs) + 1
  <2>1. /\ Len(msgs) \in Nat /\ DOMAIN msgs' = 1..(Len(msgs) + Len(t))
        /\ \A j \in (Len(msgs) + 1)..(Len(msgs) + Len(t)) :
              j - Len(msgs) \in DOMAIN t /\ msgs'[j] = t[j - Len(msgs)]
    <3>1. msgs \in Seq(Messages) /\ t \in Seq(Messages) BY <1>6 DEF TypeOK
    <3>2. /\ Len(msgs) \in Nat /\ DOMAIN t = 1..Len(t)
          /\ DOMAIN (msgs \o t) = 1..(Len(msgs) + Len(t))
          /\ \A j \in (Len(msgs) + 1)..(Len(msgs) + Len(t)) :
                j - Len(msgs) \in 1..Len(t) /\ (msgs \o t)[j] = t[j - Len(msgs)]
          BY <3>1, Appended
    <3> QED BY <1>5, <3>2
  <2>2. i \in DOMAIN msgs' /\ i - Len(msgs) = 1 /\ msgs'[i] = AI(calls) BY <1>6, <2>1
  <2>3. ASSUME NEW j \in DOMAIN msgs', msgs'[j].kind = "ai" PROVE j <= i
    <3>1. CASE j > Len(msgs)
      <4>1. j \in (Len(msgs) + 1)..(Len(msgs) + Len(t)) /\ j \in Int BY <1>6, <2>1, <3>1
      <4>2. j - Len(msgs) = 1 BY <1>7, <2>1, <2>3, <4>1
      <4> QED BY <2>1, <4>1, <4>2
    <3> QED BY <2>1, <3>1
  <2> HIDE DEF i
  <2>4. \E k \in DOMAIN msgs' :
           /\ k \in DOMAIN msgs' /\ msgs'[k].kind = "ai"
           /\ \A j \in DOMAIN msgs' : msgs'[j].kind = "ai" => j <= k
           /\ msgs'[k].calls \in Seq(Research)
        BY <1>1, <1>2, <2>2, <2>3
  <2> QED BY <2>4 DEF Called, IsLastAI
<1> QED BY <1>8, <1>9, <1>11, <1>12, <1>13 DEF Reason

\* The calls that run are of the last message.
LEMMA PendingCalls ==
    ASSUME Sound, place = "tools"
    PROVE  Pending \in Seq(Research)
<1>1. PICK i \in DOMAIN msgs : IsLastAI(i) /\ msgs[i].calls \in Seq(Research)
      BY DEF Sound, Called
<1>2. Len(msgs) \in Nat /\ DOMAIN msgs = 1..Len(msgs) BY LenProperties DEF Sound, TypeOK
<1> DEFINE last == CHOOSE k \in DOMAIN msgs :
                      /\ msgs[k].kind = "ai"
                      /\ \A j \in DOMAIN msgs : msgs[j].kind = "ai" => j <= k
<1>3. last \in DOMAIN msgs /\ msgs[last].kind = "ai"
      /\ \A j \in DOMAIN msgs : msgs[j].kind = "ai" => j <= last
  <2>1. \E k \in DOMAIN msgs :
           msgs[k].kind = "ai" /\ \A j \in DOMAIN msgs : msgs[j].kind = "ai" => j <= k
        BY <1>1 DEF IsLastAI
  <2> QED BY <2>1
<1> HIDE DEF last
<1>4. last = i BY <1>1, <1>2, <1>3 DEF IsLastAI
<1> DEFINE calls == msgs[i].calls
           n == Len(calls) - (Len(msgs) - i)
<1>5. Pending = SubSeq(calls, 1, n)
  <2>1. Pending = SubSeq(msgs[last].calls, 1, Len(msgs[last].calls) - (Len(msgs) - last))
        BY DEF Pending, last
  <2> QED BY <1>4, <2>1
<1>6. calls \in Seq(Research) /\ Len(calls) \in Nat BY <1>1, LenProperties
<1>7. n \in Int /\ n <= Len(calls) BY <1>2, <1>6
<1> HIDE DEF calls, n
<1> QED BY <1>5, <1>6, <1>7, PartOf

\* The results, refusals among them of the call that was answered last.
LEMMA SoundTools == ASSUME Sound, RunTools PROVE Sound'
<1> USE DEF Sound, RunTools
<1> DEFINE ran == {i \in DOMAIN Pending : ~Blocked(msgs, Pending[i])}
           executed == {i \in ran : Pending[i] \in Commands}
           t == [i \in DOMAIN Pending |->
                    Result(Pending[i], IF i \in ran THEN "ran" ELSE "refused")]
<1>1. Pending \in Seq(Research) BY PendingCalls
<1>2. /\ Len(Pending) \in Nat /\ DOMAIN Pending = 1..Len(Pending)
      /\ \A i \in DOMAIN Pending : Pending[i] \in Research
      BY <1>1, LenProperties, ElementOfSeq
<1>3. evidence' \subseteq Evidence
  <2>1. PICK ends \in [executed -> Evidence] :
           evidence' = evidence \cup {ends[i] : i \in executed}
        OBVIOUS
  <2> HIDE DEF executed
  <2> QED BY <2>1 DEF TypeOK
<1>4. msgs' = msgs \o t OBVIOUS
<1>5. \A i \in DOMAIN Pending :
         /\ t[i] \in Messages /\ t[i].kind = "tool" /\ t[i].call = Pending[i]
         /\ t[i].how = IF i \in ran THEN "ran" ELSE "refused"
      BY <1>2, Kinds
<1>6. t \in Seq(Messages) /\ DOMAIN t = DOMAIN Pending
  <2>1. t = [i \in 1..Len(Pending) |-> t[i]] BY <1>2
  <2> HIDE DEF t
  <2> QED BY <1>2, <1>5, <2>1
<1>7. \A i \in DOMAIN Pending : i \notin ran => Pending[i] \in PreviousSignature(msgs)
      BY DEF Blocked
<1> HIDE DEF ran, t
<1>8. \A i \in DOMAIN t :
         /\ t[i].kind # "stopped" /\ t[i] # Result(Report, "limited")
         /\ IsRefusal(t[i]) => /\ t[i].call \in PreviousSignature(msgs) \cap Research
                               /\ \A l \in 1..i : t[l].kind # "ai"
  <2> TAKE i \in DOMAIN t
  <2>1. Result(Report, "limited").how = "limited" BY DEF Result
  <2>2. t[i].how # "limited" BY <1>5, <1>6
  <2>3. IsRefusal(t[i]) => i \notin ran BY <1>5, <1>6 DEF IsRefusal
  <2>4. ASSUME NEW l \in 1..i PROVE t[l].kind # "ai"
    <3>1. l \in DOMAIN Pending BY <1>2, <1>6
    <3>2. t[l].kind = "tool" BY <1>5, <3>1
    <3> QED BY <3>2
  <2> QED BY <1>2, <1>5, <1>6, <1>7, <2>1, <2>2, <2>3, <2>4
<1>9. msgs' \in Seq(Messages) /\ Refusals' /\ NotLimited'
  <2>1. CASE t = <<>>
    <3>1. msgs' = msgs BY <1>4, <2>1, ConcatEmptySeq DEF TypeOK
    <3> QED BY <3>1 DEF TypeOK, Refusals, NotLimited
  <2>2. CASE t # <<>> BY <1>4, <1>6, <1>8, <2>2, HistoryGrows
  <2> QED BY <2>1, <2>2
<1>10. place' = "before" OBVIOUS
<1>11. TypeOK' BY <1>3, <1>9, <1>10 DEF TypeOK, Places
<1>12. Budget' BY <1>10 DEF Budget
<1> QED BY <1>9, <1>10, <1>11, <1>12 DEF Called, Reason

\* The verdict on the run leaves the history alone.
LEMMA SoundEnd == ASSUME Sound, AfterAgent PROVE Sound'
<1> USE DEF Sound, AfterAgent
<1> DEFINE v == report /\ ~ExecutionFailed
           w == SavesReport
<1>1. outcome' = [verified |-> v, saved |-> w] OBVIOUS
<1>2. v \in BOOLEAN /\ w \in BOOLEAN BY DEF SavesReport, TypeOK
<1> HIDE DEF v, w
<1>3. outcome' \in Outcomes BY <1>1, <1>2 DEF Outcomes
<1>4. outcome' # NoOutcome BY <1>1 DEF NoOutcome
<1>5. TypeOK' BY <1>3, <1>4 DEF TypeOK, Places
<1>6. Refusals' /\ NotLimited' BY DEF Refusals, NotLimited
<1>7. Reason' BY DEF Reason
<1> QED BY <1>5, <1>6, <1>7 DEF Budget, Called

\* Every step keeps the invariant.
LEMMA SoundStep == Sound /\ [Next]_vars => Sound'
<1> SUFFICES ASSUME Sound, [Next]_vars PROVE Sound' OBVIOUS
<1>1. CASE UNCHANGED vars
  <2> USE <1>1 DEF vars
  <2>1. TypeOK' BY DEF Sound, TypeOK
  <2>2. Refusals' /\ NotLimited' BY DEF Sound, Refusals, NotLimited
  <2>3. Budget' /\ Reason' BY DEF Sound, Budget, Reason
  <2>4. Called' BY DEF Sound, Called, IsLastAI
  <2> QED BY <2>1, <2>2, <2>3, <2>4 DEF Sound
<1>2. CASE Ended BY <1>1, <1>2 DEF Ended
<1> QED
    BY <1>1, <1>2, SoundBefore, SoundAnswers, SoundReports, SoundCalls, SoundTools, SoundEnd
    DEF Next

-----------------------------------------------------------------------------
(* The theorems.                                                           *)

\* The invariant holds in every reachable state.
THEOREM RunIsSound == Spec => []Sound
BY SoundInit, SoundStep, PTL DEF Spec

\* The loop's state is well formed: the calls that run and the calls that are
\* refused are the model's own (loop_guard.py, specialist_outcome.py).
THEOREM RunTyped == Spec => []TypeOK
<1>1. Sound => TypeOK BY DEF Sound
<1> QED BY <1>1, RunIsSound, PTL

\* A stop for repetition is never a false accusation: the call had been made as
\* often as the message says, the refusals it counts are of that call and nothing
\* interrupts them, and since the call was answered no other call was, unless in
\* the message of the first refusal (loop_guard.py, before_model).
THEOREM StopsAreTruthful == Spec => []StopIsTruthful
<1>1. Sound => StopIsTruthful
  <2>1. ASSUME NEW i, TruthAt(msgs, i), msgs[i].kind = "stopped"
        PROVE  \E refused \in 1..(i - 1) : \E first \in 1..(refused - 1) :
                  Unbroken(msgs, refused, i) /\ Repeats(msgs, refused, first)
        BY <2>1 DEF TruthAt
  <2>2. \A i, k : Unbroken(msgs, k, i) =>
           msgs[k] = Result(msgs[i].call, "refused") /\ msgs[k].call = msgs[i].call
        BY DEF Unbroken, Result
  <2> QED BY <2>1, <2>2
          DEF Sound, Refusals, Faithful, Unbroken, RefusedIn, Repeats, StopIsTruthful
<1> QED BY <1>1, RunIsSound, PTL

\* For any limits of which the reserve holds a last message's calls and the
\* malformed reports, the limit never refuses the report (specialist_runtime.py,
\* ReportWhenToolsRunOutMiddleware).
THEOREM ReportAlwaysFits == Spec => []ReportFits
<1>1. Sound => ReportFits
  <2> SUFFICES ASSUME Sound PROVE ReportFits OBVIOUS
  <2>1. place = "model" => spent + Reserve + 1 <= ToolLimit + MaxParallel + malformed
        BY DEF Sound, Budget
  <2>2. malformed \in 0..MaxMalformed /\ spent \in Nat BY DEF Sound, TypeOK
  <2>3. place = "model" => spent < ToolLimit BY <2>1, <2>2, LimitsAssumption
  <2> QED BY <2>3 DEF Sound, NotLimited, ReportFits
<1> QED BY <1>1, RunIsSound, PTL

\* No run ends silently without a report (specialist_outcome.py, after_model).
THEOREM EndsAreExplained == Spec => []ReportOrReason
<1>1. Sound => ReportOrReason BY DEF Sound, TypeOK, Reason, ReportOrReason
<1> QED BY <1>1, RunIsSound, PTL

-----------------------------------------------------------------------------
(* The delegation that starts such runs: what crosses (FindingsHandoff).   *)

\* The last message of the user is that of the turn; instructions may follow.
Current(i) ==
    /\ messages[i] = [kind |-> "user", turn |-> turn]
    /\ \A j \in DOMAIN messages : IsUser(messages[j]) => j <= i
Asked == phase # "idle" => \E i \in DOMAIN messages : Current(i)

\* Versions grow: what a delegation wrote is newer than what it was given, and
\* the rest is what it was given.
HandedTo(c) ==
    /\ status[c] # "idle" => phase = "tools" /\ c <= delegated
    /\ wrote[c] # {} => c <= delegated
    /\ \A p \in Paths :
          /\ sent[c][p] <= versions /\ own[c][p] <= versions
          /\ p \in wrote[c] => sent[c][p] < own[c][p]
          /\ p \notin wrote[c] => own[c][p] = sent[c][p]
Handed ==
    /\ \A p \in Paths : files[p] <= versions
    /\ \A c \in Calls : HandedTo(c)

Crossed == HandoffTypeOK /\ Asked /\ Handed /\ BriefIsCurrent

\* A set of numbers up to a bound has its largest.
LEMMA LargestIn ==
    ASSUME NEW n \in Nat, NEW S \in SUBSET (1..n), S # {}
    PROVE  Max(S) \in S /\ \A m \in S : m <= Max(S)
<1> DEFINE T == {k \in Nat : n - k \in S}
<1>1. \A m \in S : m \in 1..n /\ n - m \in T
  <2>1. TAKE m \in S
  <2>2. m \in 1..n OBVIOUS
  <2>3. n - m \in Nat /\ n - (n - m) = m BY <2>2
  <2>4. QED BY <2>2, <2>3
<1>2. T \in SUBSET Nat /\ T # {} BY <1>1
<1> HIDE DEF T
<1>3. PICK h \in T : \A l \in T : h <= l BY <1>2, LeastNumber
<1>4. h \in Nat /\ n - h \in S BY <1>3 DEF T
<1>5. \A m \in S : n - h >= m
  <2>1. TAKE m \in S
  <2>2. m \in 1..n /\ h <= n - m BY <1>1, <1>3
  <2>3. QED BY <1>4, <2>2
<1>6. \E l \in S : \A k \in S : l >= k BY <1>4, <1>5
<1>7. Max(S) \in S /\ \A k \in S : Max(S) >= k
      BY <1>6, Zenon DEF Max
<1>8. QED
  <2>1. \A k \in S : k \in Int OBVIOUS
  <2>2. QED BY <1>7, <2>1

\* The brief of a turn is the user's message.
LEMMA BriefOfTurn ==
    ASSUME HandoffTypeOK, Asked, phase # "idle"
    PROVE  Brief = [kind |-> "user", turn |-> turn]
<1>1. PICK i \in DOMAIN messages : Current(i) BY DEF Asked
<1> DEFINE users == {k \in DOMAIN messages : IsUser(messages[k])}
<1>2. DOMAIN messages = 1..Len(messages) /\ Len(messages) \in Nat
      BY LenProperties DEF HandoffTypeOK
<1>3. i \in users BY <1>1 DEF Current, IsUser
<1>4. users \in SUBSET (1..Len(messages)) BY <1>2
<1>5. \A j \in users : j <= i BY <1>1 DEF Current
<1> HIDE DEF users
<1>6. Max(users) = i
  <2>1. Max(users) \in users /\ i <= Max(users)
        BY <1>2, <1>3, <1>4, LargestIn
  <2>2. Max(users) <= i BY <1>5, <2>1
  <2>3. i \in Int /\ Max(users) \in Int BY <1>2, <1>3, <1>4, <2>1
  <2>4. QED BY <2>1, <2>2, <2>3
<1>7. messages[i] = [kind |-> "user", turn |-> turn] BY <1>1 DEF Current
<1>8. QED BY <1>6, <1>7 DEF Brief, Attached, users

\* A specialist writes a path, ends, or begins again with what it was sent.
LEMMA SpecialistDoes ==
    ASSUME NEW c \in Calls, Specialist(c)
    PROVE  /\ phase = "tools" /\ status[c] = "running"
           /\ UNCHANGED supervisor /\ sent' = sent /\ brief' = brief
           /\ \/ status' = status
              \/ status' = [status EXCEPT ![c] = "returned"]
           /\ \/ \E p \in Paths : Writes(c, p)
              \/ own' = own /\ wrote' = wrote /\ versions' = versions
              \/ /\ own' = [own EXCEPT ![c] = sent[c]]
                 /\ wrote' = [wrote EXCEPT ![c] = {}] /\ versions' = versions
<1> USE DEF Runs
<1>1. \A p \in Findings : p \in Paths BY DEF Paths
<1>2. ASSUME NEW p \in Findings, Create(c, p) \/ Edit(c, p)
      PROVE  /\ phase = "tools" /\ status[c] = "running" /\ UNCHANGED supervisor
             /\ UNCHANGED <<status, sent, brief>> /\ Writes(c, p)
      BY <1>2 DEF Create, Edit
<1>3. ASSUME NEW p \in Findings, ReturnSaved(c, p)
      PROVE  /\ phase = "tools" /\ status[c] = "running" /\ UNCHANGED supervisor
             /\ status' = [status EXCEPT ![c] = "returned"]
             /\ UNCHANGED <<sent, brief>> /\ Writes(c, p)
      BY <1>3 DEF ReturnSaved
<1>4. ASSUME Park(c)
      PROVE  /\ phase = "tools" /\ status[c] = "running" /\ UNCHANGED supervisor
             /\ UNCHANGED <<status, sent, brief>> /\ Writes(c, Summary)
             /\ Summary \in Paths
      BY <1>4 DEF Park, Paths
<1>5. CASE Return(c) BY <1>5 DEF Return
<1>6. CASE Retry(c) BY <1>6 DEF Retry
<1>7. QED BY <1>1, <1>2, <1>3, <1>4, <1>5, <1>6 DEF Specialist

\* Every variable keeps its type.
LEMMA HandoffTypes ==
    ASSUME HandoffTypeOK, Asked, [HandoffNext]_handoffVars
    PROVE  HandoffTypeOK'
<1> DEFINE Numbers == MaxCalls \in Nat \ {0} /\ MaxTurns \in Nat /\ MaxVersions \in Nat \ {0}
<1>1. Numbers BY HandoffAssumption
<1> USE DEF HandoffTypeOK, Files, Versions, HumanMessages, Said,
            NoFiles, supervisor
<1>2. CASE UserMessage BY <1>1, <1>2 DEF UserMessage
<1>3. CASE Steer BY <1>1, <1>3 DEF Steer
<1>4. CASE ParkHistory
  <2>1. versions' \in 0..MaxVersions
        BY <1>1, <1>4 DEF ParkHistory, NewVersion
  <2>2. files' \in [Paths -> 0..MaxVersions]
        BY <1>4, <2>1 DEF ParkHistory, SupervisorPaths
  <2>3. QED BY <1>4, <2>1, <2>2 DEF ParkHistory
<1>5. CASE Merge
  <2>1. \A p \in Paths : Outbound(p) # {}
           => Max(Outbound(p)) \in Calls
    <3>1. TAKE p \in Paths
    <3>2. HAVE Outbound(p) # {}
    <3>3. Outbound(p) \in SUBSET (1..delegated) BY DEF Outbound
    <3>4. delegated \in Nat OBVIOUS
    <3> HIDE DEF HandoffTypeOK
    <3>5. Max(Outbound(p)) \in Outbound(p)
          BY <3>2, <3>3, <3>4, LargestIn
    <3>6. QED BY <1>1, <3>3, <3>5 DEF Calls, HandoffTypeOK
  <2>2. files' \in [Paths -> 0..MaxVersions]
        BY <1>5, <2>1 DEF Merge
  <2>3. QED BY <1>1, <1>5, <2>2 DEF Merge
<1>6. CASE EndTurn BY <1>1, <1>6 DEF EndTurn
<1>7. ASSUME NEW n \in Calls, Delegate(n) PROVE HandoffTypeOK'
  <2>1. Crossing(files) \in [Paths -> 0..MaxVersions]
        BY <1>1 DEF Crossing
  <2>2. phase # "idle" BY <1>7 DEF Delegate
  <2>3. brief' \in [Calls -> HumanMessages]
    <3>1. Brief = [kind |-> "user", turn |-> turn] BY <2>2, BriefOfTurn
    <3>2. brief' = [c \in Calls |-> IF c <= n THEN Brief ELSE brief[c]]
          BY <1>7 DEF Delegate
    <3>3. Brief \in HumanMessages BY <3>1
    <3>4. QED BY <3>2, <3>3
  <2>4. sent' \in [Calls -> Files] /\ own' = sent'
        BY <1>1, <1>7, <2>1 DEF Delegate
  <2>5. status' \in [Calls -> {"idle", "running", "returned"}]
        /\ wrote' \in [Calls -> SUBSET Paths]
        /\ phase' = "tools" /\ UNCHANGED <<messages, files, turn, versions>>
        BY <1>7 DEF Delegate
  <2>6. delegated' \in 0..MaxCalls BY <1>1, <1>7 DEF Delegate, Calls
  <2>7. QED BY <2>3, <2>4, <2>5, <2>6
<1>8. ASSUME NEW c \in Calls, Specialist(c) PROVE HandoffTypeOK'
  <2> DEFINE Typed == /\ own' \in [Calls -> Files]
                      /\ wrote' \in [Calls -> SUBSET Paths]
                      /\ versions' \in 0..MaxVersions
  <2>1. Typed
    <3>1. ASSUME NEW p \in Paths, Writes(c, p) PROVE Typed
      <4>1. versions' \in 0..MaxVersions BY <1>1, <3>1 DEF Writes, NewVersion
      <4>2. own[c] \in Files /\ wrote[c] \in SUBSET Paths OBVIOUS
      <4>3. [own[c] EXCEPT ![p] = versions'] \in Files BY <4>1, <4>2
      <4>4. own' = [own EXCEPT ![c] = [own[c] EXCEPT ![p] = versions']]
            /\ wrote' = [wrote EXCEPT ![c] = wrote[c] \cup {p}]
            BY <3>1 DEF Writes
      <4>5. QED BY <4>1, <4>2, <4>3, <4>4
    <3>2. QED BY <1>8, <3>1, SpecialistDoes
  <2>2. QED BY <1>8, <2>1, SpecialistDoes
<1>9. CASE UNCHANGED handoffVars BY <1>9 DEF handoffVars
<1>10. QED BY <1>2, <1>3, <1>4, <1>5, <1>6, <1>7, <1>8, <1>9 DEF HandoffNext, Supervise
\* The user's message stays the last one of the user while its turn lasts.
LEMMA AskedStep ==
    ASSUME HandoffTypeOK, Asked, [HandoffNext]_handoffVars
    PROVE  Asked'
<1>1. messages \in Seq(HumanMessages) /\ turn \in Nat BY DEF HandoffTypeOK
<1>2. DOMAIN messages = 1..Len(messages) /\ Len(messages) \in Nat BY <1>1, LenProperties
<1>3. ASSUME NEW kind \in {"user", "steering"}, NEW t \in HumanMessages,
             t = [kind |-> kind, turn |-> turn'], messages' = Append(messages, t),
             kind = "user" \/ (turn' = turn /\ phase # "idle")
      PROVE  Asked'
  <2>1. /\ DOMAIN messages' = 1..(Len(messages) + 1)
        /\ \A j \in DOMAIN messages : messages'[j] = messages[j]
        /\ messages'[Len(messages) + 1] = t
        BY <1>1, <1>2, <1>3, AppendProperties
  <2>2. CASE kind = "user"
    <3>1. PICK i \in DOMAIN messages' : i = Len(messages) + 1 BY <1>2, <2>1
    <3>2. \A j \in DOMAIN messages' : j <= i BY <1>2, <2>1, <3>1
    <3>3. messages'[i] = [kind |-> "user", turn |-> turn'] BY <1>3, <2>1, <2>2, <3>1
    <3>4. Current(i)' BY <3>2, <3>3 DEF Current
    <3>5. QED BY <3>1, <3>4 DEF Asked
  <2>3. CASE kind # "user"
    <3>1. PICK i \in DOMAIN messages : Current(i) BY <1>3, <2>3 DEF Asked
    <3>2. ~IsUser(messages'[Len(messages) + 1])
          BY <1>3, <2>1, <2>3 DEF IsUser
    <3>3. \A j \in DOMAIN messages' : j \in DOMAIN messages \/ j = Len(messages) + 1
          BY <1>2, <2>1
    <3>4. ASSUME NEW j \in DOMAIN messages', IsUser(messages'[j]) PROVE j <= i
      <4>1. j \in DOMAIN messages /\ messages'[j] = messages[j] BY <2>1, <3>2, <3>3, <3>4
      <4>2. QED BY <3>1, <3>4, <4>1 DEF Current, IsUser
    <3>5. messages'[i] = [kind |-> "user", turn |-> turn']
          BY <1>3, <2>1, <2>3, <3>1 DEF Current
    <3>6. i \in DOMAIN messages' BY <1>2, <2>1
    <3>7. Current(i)' BY <3>4, <3>5 DEF Current, IsUser
    <3>8. QED BY <3>6, <3>7 DEF Asked
  <2>4. QED BY <2>2, <2>3
<1>4. CASE UserMessage
  <2>1. turn' \in 0..MaxTurns /\ messages' = Append(messages, [kind |-> "user", turn |-> turn'])
        BY <1>4, HandoffAssumption DEF UserMessage, HandoffTypeOK
  <2>2. [kind |-> "user", turn |-> turn'] \in HumanMessages BY <2>1 DEF HumanMessages
  <2>3. QED BY <1>3, <2>1, <2>2
<1>5. CASE Steer
  <2>1. /\ turn' = turn /\ turn \in 0..MaxTurns /\ phase # "idle"
        /\ messages' = Append(messages, [kind |-> "steering", turn |-> turn'])
        BY <1>5 DEF Steer, Said, HandoffTypeOK
  <2>2. [kind |-> "steering", turn |-> turn'] \in HumanMessages BY <2>1 DEF HumanMessages
  <2>3. QED BY <1>3, <2>1, <2>2
<1>6. messages' = messages /\ turn' = turn /\ (phase' # "idle" => phase # "idle") => Asked'
      BY DEF Asked, Current, IsUser
<1>7. CASE ParkHistory BY <1>6, <1>7 DEF ParkHistory
<1>8. CASE Merge BY <1>6, <1>8 DEF Merge
<1>9. CASE EndTurn BY <1>6, <1>9 DEF EndTurn
<1>10. ASSUME NEW n \in Calls, Delegate(n) PROVE Asked'
       BY <1>6, <1>10 DEF Delegate
<1>11. ASSUME NEW c \in Calls, Specialist(c) PROVE Asked'
       BY <1>6, <1>11, SpecialistDoes DEF supervisor
<1>12. CASE UNCHANGED handoffVars BY <1>6, <1>12 DEF handoffVars, supervisor
<1>13. QED BY <1>4, <1>5, <1>7, <1>8, <1>9, <1>10, <1>11, <1>12 DEF HandoffNext, Supervise

\* Nobody has a delegation, as before the first answer.
LEMMA NothingHanded ==
    ASSUME NEW v \in Nat,
           \A p \in Paths : files'[p] <= v, versions' = v,
           status' = [c \in Calls |-> "idle"],
           sent' = [c \in Calls |-> NoFiles], own' = sent',
           wrote' = [c \in Calls |-> {}]
    PROVE  Handed' /\ BriefIsCurrent'
BY DEF Handed, HandedTo, NoFiles, BriefIsCurrent

\* What is handed over and what is written keeps its order.
LEMMA HandedStep ==
    ASSUME Crossed, [HandoffNext]_handoffVars
    PROVE  Handed' /\ BriefIsCurrent'
<1>1. /\ versions \in Nat /\ files \in [Paths -> Nat]
      /\ sent \in [Calls -> [Paths -> Nat]]
      /\ own \in [Calls -> [Paths -> Nat]]
      /\ wrote \in [Calls -> SUBSET Paths]
      /\ status \in [Calls -> {"idle", "running", "returned"}]
      /\ brief \in [Calls -> HumanMessages]
      BY HandoffAssumption DEF Crossed, HandoffTypeOK, Files, Versions
<1>2. Handed /\ BriefIsCurrent /\ Asked BY DEF Crossed
<1>3. ASSUME UNCHANGED <<status, sent, own, brief, wrote, delegated>>,
             versions' \in Nat, versions <= versions',
             \A p \in Paths : files'[p] <= versions',
             \A c \in Calls : status[c] # "idle" => phase' = "tools" /\ turn' = turn
      PROVE  Handed' /\ BriefIsCurrent'
  <2>1. ASSUME NEW c \in Calls PROVE HandedTo(c)'
        BY <1>1, <1>2, <1>3 DEF Handed, HandedTo
  <2>2. QED BY <1>2, <1>3, <2>1 DEF Handed, BriefIsCurrent
<1>4. \A c \in Calls : status[c] # "idle" => phase = "tools"
      BY <1>2 DEF Handed, HandedTo
<1>5. CASE UserMessage
      BY <1>1, <1>2, <1>3, <1>4, <1>5 DEF UserMessage, Handed
<1>6. CASE Steer
      BY <1>1, <1>2, <1>3, <1>4, <1>6 DEF Steer, Handed
<1>7. CASE ParkHistory
  <2>1. versions' = versions + 1 BY <1>7 DEF ParkHistory, NewVersion
  <2>2. \A p \in Paths : files'[p] <= versions'
        BY <1>1, <1>2, <1>7, <2>1 DEF ParkHistory, SupervisorPaths, Handed
  <2>3. \A c \in Calls : status[c] = "idle" BY <1>4, <1>7 DEF ParkHistory
  <2>4. QED BY <1>1, <1>3, <1>7, <2>1, <2>2, <2>3 DEF ParkHistory
<1>8. CASE Merge
  <2>1. ASSUME NEW p \in Paths PROVE files'[p] <= versions'
    <3>1. CASE Outbound(p) = {} BY <1>2, <1>8, <3>1 DEF Merge, Handed
    <3>2. CASE Outbound(p) # {}
      <4>1. delegated \in Nat BY DEF Crossed, HandoffTypeOK
      <4>2. PICK c \in 1..delegated : c = Max(Outbound(p))
        <5>1. Outbound(p) \in SUBSET (1..delegated) BY DEF Outbound
        <5>2. QED BY <3>2, <4>1, <5>1, LargestIn
      <4>3. c \in Calls
            BY <4>2, HandoffAssumption DEF Crossed, HandoffTypeOK, Calls
      <4>4. own[c][p] <= versions BY <1>1, <1>2, <4>3 DEF Handed, HandedTo
      <4>5. QED BY <1>8, <3>2, <4>2, <4>4 DEF Merge
    <3>3. QED BY <3>1, <3>2
  <2>2. QED BY <1>1, <1>8, <2>1, NothingHanded DEF Merge
<1>9. CASE EndTurn
      BY <1>1, <1>2, <1>9, NothingHanded DEF EndTurn, Handed
<1>10. ASSUME NEW n \in Calls, Delegate(n)
       PROVE  Handed' /\ BriefIsCurrent'
  <2>1. phase # "idle" /\ phase' = "tools" /\ turn' = turn /\ files' = files
        /\ versions' = versions BY <1>10 DEF Delegate
  <2>2. Brief = [kind |-> "user", turn |-> turn]
        BY <1>2, <2>1, BriefOfTurn DEF Crossed
  <2>3. \A p \in Paths : Crossing(files)[p] \in {files[p], 0}
        BY DEF Crossing
  <2>4. ASSUME NEW c \in Calls
        PROVE  /\ own'[c] = sent'[c] /\ wrote'[c] = {}
               /\ \A p \in Paths : sent'[c][p] \in {files[p], 0}
               /\ status'[c] # "idle" => brief'[c] = Brief /\ c <= delegated'
        BY <1>10, <2>3 DEF Delegate, NoFiles
  <2>5. ASSUME NEW c \in Calls PROVE HandedTo(c)'
    <3>1. ASSUME NEW p \in Paths
          PROVE  sent'[c][p] <= versions' /\ own'[c][p] <= versions'
      <4>1. sent'[c][p] \in {files[p], 0} /\ files[p] \in Nat BY <1>1, <2>4
      <4>2. files[p] <= versions BY <1>2 DEF Handed
      <4>3. QED BY <1>1, <2>1, <2>4, <4>1, <4>2
    <3>2. QED BY <2>1, <2>4, <3>1 DEF HandedTo
  <2>6. QED BY <1>2, <2>1, <2>2, <2>4, <2>5 DEF Handed, BriefIsCurrent
<1>11. ASSUME NEW c \in Calls, Specialist(c)
       PROVE  Handed' /\ BriefIsCurrent'
  <2>1. /\ phase' = "tools" /\ turn' = turn /\ files' = files /\ delegated' = delegated
        /\ status[c] = "running" /\ sent' = sent /\ brief' = brief
        BY <1>11, SpecialistDoes DEF supervisor
  <2>2. \A b \in Calls : b # c => status'[b] = status[b]
        BY <1>1, <1>11, SpecialistDoes
  <2>3. BriefIsCurrent' BY <1>2, <2>1, <2>2 DEF BriefIsCurrent
  <2>4. \A b \in Calls :
           /\ HandedTo(b)
           /\ status'[b] # "idle" => phase' = "tools" /\ b <= delegated'
        BY <1>2, <2>1, <2>2 DEF Handed, HandedTo
  <2>5. CASE own' = own /\ wrote' = wrote /\ versions' = versions
    <3>1. ASSUME NEW b \in Calls PROVE HandedTo(b)'
          BY <2>1, <2>4, <2>5 DEF HandedTo
    <3>2. QED BY <1>2, <2>1, <2>3, <2>5, <3>1 DEF Handed
  <2>6. CASE /\ own' = [own EXCEPT ![c] = sent[c]]
             /\ wrote' = [wrote EXCEPT ![c] = {}] /\ versions' = versions
    <3>1. ASSUME NEW b \in Calls PROVE HandedTo(b)'
          BY <1>1, <2>1, <2>4, <2>6 DEF HandedTo
    <3>2. QED BY <1>2, <2>1, <2>3, <2>6, <3>1 DEF Handed
  <2>7. ASSUME NEW p \in Paths, Writes(c, p)
        PROVE  Handed' /\ BriefIsCurrent'
    <3>1. versions' = versions + 1 BY <2>7 DEF Writes, NewVersion
    <3>2. /\ \A b \in Calls : \A q \in Paths :
                own'[b][q] = IF b = c /\ q = p THEN versions' ELSE own[b][q]
          /\ \A b \in Calls :
                wrote'[b] = IF b = c THEN wrote[b] \cup {p} ELSE wrote[b]
          BY <1>1, <2>7 DEF Writes
    <3>3. ASSUME NEW b \in Calls PROVE HandedTo(b)'
      <4>1. HandedTo(b) BY <2>4
      <4>2. status'[b] # "idle" => phase' = "tools" /\ b <= delegated' BY <2>4
      <4>3. wrote'[b] # {} => b <= delegated'
            BY <1>2, <2>1, <3>2, <4>1 DEF Handed, HandedTo
      <4>4. ASSUME NEW q \in Paths
            PROVE  /\ sent'[b][q] <= versions'
                   /\ own'[b][q] <= versions'
                   /\ q \in wrote'[b] => sent'[b][q] < own'[b][q]
                   /\ q \notin wrote'[b] => own'[b][q] = sent'[b][q]
        <5>1. /\ sent'[b][q] = sent[b][q] /\ sent[b][q] \in Nat
              /\ own[b][q] \in Nat /\ versions \in Nat
              BY <1>1, <2>1
        <5>2. CASE b = c /\ q = p
          <6>1. own'[b][q] = versions + 1 /\ q \in wrote'[b] BY <3>1, <3>2, <5>2
          <6>2. sent[b][q] <= versions BY <4>1 DEF HandedTo
          <6>3. QED BY <3>1, <5>1, <6>1, <6>2
        <5>3. CASE ~(b = c /\ q = p)
          <6>1. own'[b][q] = own[b][q] /\ (q \in wrote'[b] <=> q \in wrote[b])
                BY <3>2, <5>3
          <6>2. QED BY <3>1, <4>1, <5>1, <6>1 DEF HandedTo
        <5>4. QED BY <5>2, <5>3
      <4>5. QED BY <4>2, <4>3, <4>4 DEF HandedTo
    <3>4. QED BY <1>1, <1>2, <2>1, <2>3, <3>1, <3>3 DEF Handed
  <2>8. QED BY <1>11, <2>5, <2>6, <2>7, SpecialistDoes
<1>12. CASE UNCHANGED handoffVars
       BY <1>1, <1>2, <1>12
       DEF handoffVars, supervisor, Handed, HandedTo, BriefIsCurrent
<1>13. QED BY <1>5, <1>6, <1>7, <1>8, <1>9, <1>10, <1>11, <1>12 DEF HandoffNext, Supervise

\* The invariant holds in every reachable state.
THEOREM HandoffIsSound ==
    HandoffSpec => []Crossed
<1>1. HandoffInit => Crossed
  <2>1. SUFFICES ASSUME HandoffInit PROVE Crossed OBVIOUS
  <2>2. HandoffTypeOK
    <3>1. 0 \in Versions /\ 1 \in Versions
          BY HandoffAssumption DEF Versions
    <3>2. NoFiles \in Files /\ files \in Files
          BY <2>1, <3>1 DEF HandoffInit, Files, NoFiles
    <3>3. Said("user") \in HumanMessages
          BY <2>1, HandoffAssumption DEF HandoffInit, HumanMessages, Said
    <3>4. messages \in Seq(HumanMessages) BY <2>1 DEF HandoffInit
    <3>5. versions \in Versions /\ turn \in 0..MaxTurns /\ delegated \in 0..MaxCalls
          BY <2>1, HandoffAssumption DEF HandoffInit, Versions
    <3>6. QED BY <2>1, <3>2, <3>3, <3>4, <3>5 DEF HandoffInit, HandoffTypeOK
  <2>3. Handed /\ BriefIsCurrent
        BY <2>1 DEF HandoffInit, Handed, HandedTo, NoFiles, BriefIsCurrent
  <2>4. QED BY <2>1, <2>2, <2>3 DEF Crossed, Asked, HandoffInit
<1>2. Crossed /\ [HandoffNext]_handoffVars => Crossed'
  <2>1. SUFFICES ASSUME Crossed, [HandoffNext]_handoffVars PROVE Crossed' OBVIOUS
  <2>2. HandoffTypeOK /\ Asked BY <2>1 DEF Crossed
  <2>3. HandoffTypeOK' BY <2>1, <2>2, HandoffTypes
  <2>4. Asked' BY <2>1, <2>2, AskedStep
  <2>5. Handed' /\ BriefIsCurrent' BY <2>1, HandedStep
  <2>6. QED BY <2>3, <2>4, <2>5 DEF Crossed
<1>3. QED BY <1>1, <1>2, PTL DEF HandoffSpec

\* Every brief carries the user's message of its turn, whatever instructions
\* came after it (with_user_message).
THEOREM BriefsAreCurrent == HandoffSpec => []BriefIsCurrent
<1>1. Crossed => BriefIsCurrent BY DEF Crossed
<1>2. QED BY <1>1, HandoffIsSound, PTL

\* A merge gives every finding a version one of its writers wrote, and leaves
\* alone what nobody wrote, although every delegation returns a copy of all it
\* was given (findings_delta).
THEOREM MergesWhatWasWritten == HandoffSpec => MergesOwnWrites
<1>1. Crossed =>
        (Merge =>
            \A p \in Paths :
                IF p = Summary \/ Writers(p) = {}
                  THEN files'[p] = files[p]
                  ELSE files'[p] \in {own[c][p] : c \in Writers(p)})
  <2> SUFFICES ASSUME Crossed, Merge, NEW p \in Paths
               PROVE  IF p = Summary \/ Writers(p) = {}
                        THEN files'[p] = files[p]
                        ELSE files'[p] \in {own[c][p] : c \in Writers(p)}
    OBVIOUS
  <2>1. /\ delegated \in 0..MaxCalls /\ MaxCalls \in Nat
        /\ sent \in [Calls -> [Paths -> Nat]]
        /\ own \in [Calls -> [Paths -> Nat]]
        BY HandoffAssumption DEF Crossed, HandoffTypeOK, Files, Versions
  <2>2. files'[p] = IF Outbound(p) = {} THEN files[p]
                    ELSE own[Max(Outbound(p))][p]
        BY DEF Merge
  <2>3. \A c \in 1..delegated : c \in Calls BY <2>1 DEF Calls
  <2>4. p = Summary => Outbound(p) = {}
        BY HandoffAssumption DEF Outbound, Delta, Findings
  <2>5. p # Summary => p \in Findings BY DEF Paths
  <2>6. ASSUME p # Summary, NEW c
        PROVE  c \in Outbound(p) <=> c \in Writers(p)
    <3>1. ASSUME c \in Calls
          PROVE  /\ c \in Outbound(p) => p \in wrote[c]
                 /\ p \in wrote[c] => c \in Outbound(p)
      <4>1. HandedTo(c) BY <3>1 DEF Crossed, Handed
      <4>2. own[c][p] \in Nat /\ sent[c][p] \in Nat BY <2>1, <3>1
      <4>3. c \in Outbound(p) <=>
               c \in 1..delegated /\ own[c][p] # 0 /\ own[c][p] # sent[c][p]
            BY <2>5, <2>6 DEF Outbound, Delta
      <4>4. p \notin wrote[c] => own[c][p] = sent[c][p] BY <4>1 DEF HandedTo
      <4>5. ASSUME p \in wrote[c]
            PROVE  c \in 1..delegated /\ own[c][p] # 0 /\ own[c][p] # sent[c][p]
        <5>1. c <= delegated /\ sent[c][p] < own[c][p] BY <4>1, <4>5 DEF HandedTo
        <5>2. c \in 1..delegated BY <2>1, <3>1, <5>1 DEF Calls
        <5>3. QED BY <4>2, <5>1, <5>2
      <4>6. QED BY <4>3, <4>4, <4>5
    <3>2. c \in Outbound(p) => c \in Calls BY <2>3 DEF Outbound
    <3>3. QED BY <3>1, <3>2 DEF Writers
  <2>7. CASE p = Summary BY <2>2, <2>4, <2>7
  <2>8. CASE p # Summary
    <3>1. Outbound(p) = Writers(p) BY <2>6, <2>8
    <3>2. Outbound(p) # {} => Max(Outbound(p)) \in Writers(p)
      <4>1. Outbound(p) \in SUBSET (1..delegated) BY DEF Outbound
      <4>2. delegated \in Nat BY <2>1
      <4>3. QED BY <3>1, <4>1, <4>2, LargestIn
    <3>3. QED BY <2>2, <2>8, <3>1, <3>2
  <2>9. QED BY <2>7, <2>8
<1>2. QED BY <1>1, HandoffIsSound, PTL DEF MergesOwnWrites
=============================================================================
