---------------------------- MODULE RecorderProofs ----------------------------
(***************************************************************************)
(* Recorder for any nodes, any buffer, any number of lines and faults:     *)
(* command_log has every line of a node once and in order, and, unless     *)
(* something failed, all the lines that end found when it asked a ready    *)
(* loop for the final pull.                                                *)
(***************************************************************************)
EXTENDS Recorder, EventBusProofs, FiniteSetTheorems, SequenceTheorems

-----------------------------------------------------------------------------
(* The inductive invariant.                                                *)

Events == {"running", "ended", "other"}

\* What a pull has read of a node: its lines after from, up to upto.
Segment == [node : Nodes, from : 0..MaxLines, upto : 0..MaxLines]

\* The flags ...
Flags ==
    /\ announced \in BOOLEAN /\ sandbox \in BOOLEAN /\ dispatching \in BOOLEAN /\ closing \in BOOLEAN
    /\ entry \in BOOLEAN /\ cancelled \in BOOLEAN /\ stopped \in BOOLEAN /\ ready \in BOOLEAN
    /\ final \in BOOLEAN /\ late \in BOOLEAN /\ missed \in BOOLEAN

\* ... where end, the loop, the hook and their pulls are ...
Control ==
    /\ ending \in {"no", "hook", "publish", "destroy", "over"}
    /\ inbox \in Seq(Events) /\ Len(inbox) <= Buffer
    /\ loop \in {"none", "loading", "ticking", "pulling", "in pull", "last pull", "in last pull",
                 "gone"}
    /\ hook \in {"idle", "waiting", "pulling", "done"}
    /\ pulling \in {{}, {"loop"}, {"hook"}}
    /\ todo \in [Pullers -> SUBSET Nodes]

\* ... and the lines, as the nodes, the pulls and the store have them.
Data ==
    /\ faults \in Nat
    /\ lines \in [Nodes -> 0..MaxLines]
    /\ owed \in [Nodes -> 0..MaxLines]
    /\ offsets \in [Nodes -> 0..MaxLines]
    /\ log \in [Nodes -> Seq(Nat)]
    /\ read \in [Pullers -> SUBSET Segment]

\* The first n lines.
IsPrefix(s, n) == Len(s) = n /\ \A k \in 1..n : s[k] = k

\* The rows of a node are its lines up to the offset, which is not beyond the log.
Logged == \A n \in Nodes : IsPrefix(log[n], offsets[n]) /\ offsets[n] <= lines[n]

\* What was read and is not stored belongs to whoever has the lock, starts at the
\* offset and was there.
Reads ==
    \A p \in Pullers :
        /\ p \in pulling <=> (IF p = "hook" THEN hook = "pulling" ELSE loop \in {"in pull", "in last pull"})
        /\ read[p] # {} => p \in pulling
        /\ \A r \in read[p] :
              /\ r.node \in todo[p]
              /\ r.from = offsets[r.node] /\ r.from <= r.upto /\ r.upto <= lines[r.node]
        /\ \A r, s \in read[p] : r = s

\* The attempt is announced once, so the loop is started once.
StartedOnce ==
    /\ Once(inbox, "running")
    /\ Queued(inbox, "running") => announced /\ loop = "none"
    /\ loop # "none" => announced

\* End, its hook and the sandbox; the lines it found are there, and none before
\* it asked or when the loop was not ready.
Ending ==
    /\ sandbox <=> ending # "over"
    /\ ending = "no" => hook = "idle"
    /\ ending \in {"publish", "destroy", "over"} => hook # "idle"
    /\ Queued(inbox, "ended") => ending \in {"destroy", "over"}
    /\ loop \in {"last pull", "in last pull"} => stopped
    /\ \A n \in Nodes : owed[n] <= lines[n] /\ (owed[n] # 0 => ready /\ hook # "idle")

\* Unless something failed, end waits for the hook and the hook for every node:
\* nobody makes the final pull before it, and what it is done with is stored.
Owing ==
    faults = 0 =>
        /\ hook \in {"waiting", "pulling"} => ending = "hook"
        /\ stopped => hook = "done"
        /\ final => hook \in {"pulling", "done"}
        /\ hook = "pulling" =>
              /\ \A n \in Nodes \ todo["hook"] : owed[n] <= offsets[n]
              /\ \A r \in read["hook"] : owed[r.node] <= r.upto
        /\ hook = "done" => \A n \in Nodes : owed[n] <= offsets[n]

\* The inductive invariant.
RecorderInv == Flags /\ Control /\ Data /\ Logged /\ Reads /\ StartedOnce /\ Ending /\ Owing

-----------------------------------------------------------------------------
(* What steps make of the inbox and of the log.                            *)

\* The bounds that the proofs need.
LEMMA Bounds == Buffer \in Nat /\ MaxLines \in Nat
BY RecorderAssumption

\* Publishing in this module's terms ...
LEMMA PublishQueue ==
    ASSUME inbox \in Seq(Events), Len(inbox) <= Buffer, NEW e \in Events,
           inbox' = Published(inbox, e, Buffer)
    PROVE  /\ inbox' \in Seq(Events) /\ Len(inbox') <= Buffer
           /\ \A m \in Events : Queued(inbox', m) => Queued(inbox, m) \/ m = e
           /\ \A m \in Events : Once(inbox, m) /\ (e # m \/ ~Queued(inbox, m)) => Once(inbox', m)
<1>1. Buffer \in Nat
  BY Bounds
<1> QED BY <1>1, PublishedChannel

\* ... and what the dispatcher takes.
LEMMA DispatchQueue ==
    ASSUME inbox \in Seq(Events), inbox # <<>>, Len(inbox) <= Buffer, inbox' = Tail(inbox)
    PROVE  /\ inbox' \in Seq(Events) /\ Len(inbox') <= Buffer
           /\ Queued(inbox, Head(inbox))
           /\ \A m \in Events : Queued(inbox', m) => Queued(inbox, m)
           /\ \A m \in Events :
                 Once(inbox, m) => Once(inbox', m) /\ (Head(inbox) = m => ~Queued(inbox', m))
<1>1. Buffer \in Nat /\ Len(inbox) \in Nat
  BY RecorderAssumption
<1>2. Len(inbox') = Len(inbox) - 1 => Len(inbox') <= Buffer
  BY <1>1
<1> QED BY <1>2, ReceivedChannel

\* The lines after the first a, up to b, make of the first a lines the first b.
LEMMA AppendedLines ==
    ASSUME NEW s \in Seq(Nat), NEW a \in Nat, NEW b \in Nat, a <= b, IsPrefix(s, a)
    PROVE  /\ s \o [k \in 1..(b - a) |-> a + k] \in Seq(Nat)
           /\ IsPrefix(s \o [k \in 1..(b - a) |-> a + k], b)
<1> DEFINE t == [k \in 1..(b - a) |-> a + k]
<1>1. b - a \in Nat /\ Len(s) = a
  BY DEF IsPrefix
<1>2. t \in Seq(Nat) /\ Len(t) = b - a /\ \A k \in 1..(b - a) : t[k] = a + k
  BY <1>1
<1> HIDE DEF t
<1>3. s \o t \in Seq(Nat) /\ Len(s \o t) = b
  <2>1. s \o t \in Seq(Nat) /\ Len(s \o t) = Len(s) + Len(t)
    BY <1>2, ConcatProperties
  <2> QED BY <1>1, <1>2, <2>1
<1>4. \A k \in 1..b : (s \o t)[k] = IF k <= a THEN s[k] ELSE t[k - a]
  BY <1>1, <1>2, <1>3
<1>5. \A k \in 1..b : (s \o t)[k] = k
  <2>1. ASSUME NEW k \in 1..b, k <= a PROVE (s \o t)[k] = k
    BY <1>4, <2>1 DEF IsPrefix
  <2>2. ASSUME NEW k \in 1..b, ~(k <= a) PROVE (s \o t)[k] = k
    <3>1. k - a \in 1..(b - a) /\ a + (k - a) = k
      BY <2>2
    <3>2. t[k - a] = a + (k - a)
      BY <1>2, <3>1
    <3> QED BY <1>4, <2>2, <3>1, <3>2
  <2> QED BY <2>1, <2>2
<1> QED BY <1>3, <1>5 DEF IsPrefix, t

\* The numbers among the data.
LEMMA Numbers ==
    ASSUME Data
    PROVE  /\ faults \in Nat
           /\ \A n \in Nodes : lines[n] \in Nat /\ owed[n] \in Nat /\ offsets[n] \in Nat
BY Bounds DEF Data

\* What a pull holds is a segment.
LEMMA ReadType ==
    ASSUME Data, NEW p \in Pullers, NEW r \in read[p]
    PROVE  r \in Segment /\ r.node \in Nodes /\ r.from \in Nat /\ r.upto \in Nat /\ r.upto \in 0..MaxLines
<1>1. r \in Segment
  BY DEF Data
<1> QED BY <1>1, Bounds DEF Segment

\* A command that is entered is one more line.
LEMMA EnterEffect ==
    ASSUME Data, NEW n \in Nodes, Enter(n)
    PROVE  \A m \in Nodes : lines'[m] \in Nat /\ lines[m] <= lines'[m]
<1>1. \A m \in Nodes : lines[m] \in Nat
  BY Numbers
<1>2. lines' = [lines EXCEPT ![n] = lines[n] + 1]
  BY DEF Enter
<1>3. lines \in [Nodes -> 0..MaxLines]
  BY DEF Data
<1> QED BY <1>1, <1>2, <1>3

\* What was read is stored, or failed: offsets never go back and stay with the
\* rows.
LEMMA AppendEffect ==
    ASSUME Data, Logged, Reads, NEW p \in Pullers, NEW r \in read[p], Append1(p, r)
    PROVE  /\ faults' \in Nat
           /\ offsets' \in [Nodes -> 0..MaxLines] /\ log' \in [Nodes -> Seq(Nat)]
           /\ \A n \in Nodes :
                 /\ offsets[n] <= offsets'[n] /\ offsets'[n] <= lines[n]
                 /\ IsPrefix(log'[n], offsets'[n])
                 /\ n # r.node => offsets'[n] = offsets[n]
           /\ faults' = 0 => faults = 0 /\ offsets'[r.node] = r.upto
<1> USE Bounds
<1>1. /\ r.node \in Nodes /\ r.from \in 0..MaxLines /\ r.upto \in 0..MaxLines
      /\ r.from = offsets[r.node] /\ r.from <= r.upto /\ r.upto <= lines[r.node]
  <2>1. r.from = offsets[r.node] /\ r.from <= r.upto /\ r.upto <= lines[r.node]
    BY DEF Reads
  <2>2. r.node \in Nodes /\ r.from \in 0..MaxLines /\ r.upto \in 0..MaxLines
    BY ReadType DEF Segment
  <2> QED BY <2>1, <2>2
<1>2. PICK ok \in BOOLEAN :
          /\ faults' = IF ok THEN faults ELSE faults + 1
          /\ offsets' = [offsets EXCEPT ![r.node] = OffsetAfter(r, ok)]
          /\ log' = IF ok
                    THEN [log EXCEPT ![r.node] = @ \o [k \in 1..(r.upto - r.from) |-> r.from + k]]
                    ELSE log
  BY DEF Append1
<1>3. CASE ok
  <2> DEFINE s == log[r.node] \o [k \in 1..(r.upto - r.from) |-> r.from + k]
  <2>1. s \in Seq(Nat) /\ IsPrefix(s, r.upto)
    <3>1. log[r.node] \in Seq(Nat) /\ IsPrefix(log[r.node], r.from) /\ r.from \in Nat /\ r.upto \in Nat
      BY <1>1 DEF Data, Logged
    <3> QED BY <1>1, <3>1, AppendedLines
  <2>2. /\ faults' = faults /\ offsets' = [offsets EXCEPT ![r.node] = r.upto]
        /\ log' = [log EXCEPT ![r.node] = s]
    BY <1>2, <1>3 DEF OffsetAfter
  <2> HIDE DEF s
  <2> QED BY <1>1, <2>1, <2>2 DEF Data, Logged
<1>4. CASE ~ok
  <2>1. faults' = faults + 1 /\ offsets' = offsets /\ log' = log
    BY <1>1, <1>2, <1>4 DEF OffsetAfter, Data
  <2> QED BY <2>1 DEF Data, Logged
<1> QED BY <1>3, <1>4

\* What a pull reads of a node, if it can.
LEMMA ReadEffect ==
    ASSUME Data, Logged, NEW p \in Pullers, NEW n \in Nodes, Read(p, n)
    PROVE  /\ faults' \in Nat /\ read' \in [Pullers -> SUBSET Segment]
           /\ \/ /\ read' = [read EXCEPT ![p] = {[node |-> n, from |-> offsets[n], upto |-> lines[n]]}]
                 /\ UNCHANGED <<todo, faults>>
              \/ /\ todo' = [todo EXCEPT ![p] = @ \ {n}] /\ UNCHANGED read
                 /\ faults' = 0 => faults = 0 /\ Gone(p)
<1>1. CASE /\ read' = [read EXCEPT ![p] = {[node |-> n, from |-> offsets[n], upto |-> lines[n]]}]
           /\ UNCHANGED <<todo, faults>>
  <2>1. [node |-> n, from |-> offsets[n], upto |-> lines[n]] \in Segment
    BY DEF Data, Segment
  <2> QED BY <1>1, <2>1 DEF Data
<1>2. CASE /\ faults' = IF Gone(p) THEN faults ELSE faults + 1
           /\ todo' = [todo EXCEPT ![p] = @ \ {n}]
           /\ UNCHANGED read
  BY <1>2 DEF Data
<1> QED BY <1>1, <1>2 DEF Read

\* A line more does not harm a pull ...
LEMMA ReadsEnter ==
    ASSUME Data, Reads, NEW n \in Nodes, Enter(n)
    PROVE  Reads'
<1>1. UNCHANGED <<read, todo, pulling, offsets, hook, loop>>
  BY DEF Enter, dispatchVars, loopVars, pullVars, logVars
<1>2. ASSUME NEW p \in Pullers, NEW r \in read[p]
      PROVE  r.upto <= lines'[r.node]
  <2>1. r.node \in Nodes /\ r.upto \in Nat /\ lines[r.node] \in Nat
    BY ReadType, Numbers
  <2>2. r.upto <= lines[r.node]
    BY DEF Reads
  <2> QED BY <2>1, <2>2, EnterEffect
<1> QED BY <1>1, <1>2 DEF Reads

\* ... and what a pull reads is as it should be.
LEMMA ReadsRead ==
    ASSUME Control, Data, Logged, Reads, NEW p \in Pullers, NEW n \in Nodes, Read(p, n)
    PROVE  Reads'
<1>1. read[p] = {} /\ n \in todo[p] /\ p \in pulling /\ UNCHANGED <<pulling, hook, loop, offsets, lines>>
  BY DEF Read, loopVars, logVars
<1>2. read \in [Pullers -> SUBSET Segment] /\ todo \in [Pullers -> SUBSET Nodes]
  BY DEF Data, Control
<1>3. offsets[n] <= lines[n]
  BY DEF Logged
<1>4. CASE /\ read' = [read EXCEPT ![p] = {[node |-> n, from |-> offsets[n], upto |-> lines[n]]}]
           /\ UNCHANGED todo
  <2>1. ASSUME NEW q \in Pullers, q # p PROVE read'[q] = read[q] /\ todo'[q] = todo[q]
    BY <1>2, <1>4, <2>1
  <2>2. read'[p] = {[node |-> n, from |-> offsets[n], upto |-> lines[n]]} /\ todo'[p] = todo[p]
    BY <1>2, <1>4
  <2>3. \A r \in read'[p] : r.node = n /\ r.from = offsets[n] /\ r.upto = lines[n]
    BY <2>2
  <2>4. \A r, s \in read'[p] : r = s
    BY <2>2
  <2> SUFFICES ASSUME NEW q \in Pullers
               PROVE  /\ q \in pulling <=> (IF q = "hook" THEN hook = "pulling"
                                                          ELSE loop \in {"in pull", "in last pull"})
                      /\ read'[q] # {} => q \in pulling
                      /\ \A r \in read'[q] :
                            /\ r.node \in todo'[q]
                            /\ r.from = offsets[r.node] /\ r.from <= r.upto /\ r.upto <= lines[r.node]
                      /\ \A r, s \in read'[q] : r = s
    BY <1>1 DEF Reads
  <2>5. CASE q = p
    <3>1. \A r \in read'[p] :
              /\ r.node \in todo'[p]
              /\ r.from = offsets[r.node] /\ r.from <= r.upto /\ r.upto <= lines[r.node]
      BY <1>1, <1>3, <2>2, <2>3, Numbers
    <3> QED BY <1>1, <2>4, <2>5, <3>1 DEF Reads
  <2>6. CASE q # p
    <3>1. read'[q] = read[q] /\ todo'[q] = todo[q]
      BY <2>1, <2>6
    <3> QED BY <3>1 DEF Reads
  <2> QED BY <2>5, <2>6
<1>5. CASE todo' = [todo EXCEPT ![p] = @ \ {n}] /\ UNCHANGED read
  <2>1. ASSUME NEW q \in Pullers, q # p PROVE todo'[q] = todo[q]
    BY <1>2, <1>5, <2>1
  <2> QED BY <1>1, <1>5, <2>1 DEF Reads
<1> QED BY <1>4, <1>5, ReadEffect

\* A line more is not owed.
LEMMA EndingEnter ==
    ASSUME Data, Ending, NEW n \in Nodes, Enter(n)
    PROVE  Ending'
<1>1. UNCHANGED <<sandbox, ending, hook, inbox, loop, stopped, ready, owed>>
  BY DEF Enter, dispatchVars, loopVars, attemptVars
<1>2. ASSUME NEW m \in Nodes PROVE owed[m] <= lines'[m]
  <2>1. owed[m] <= lines[m]
    BY DEF Ending
  <2> QED BY <2>1, Numbers, EnterEffect
<1> QED BY <1>1, <1>2 DEF Ending

\* What end finds is there.
LEMMA EndingFinalPull ==
    ASSUME Data, Ending, FinalPull
    PROVE  Ending'
<1>1. /\ hook' # "idle" /\ ending = "hook"
      /\ UNCHANGED <<sandbox, ending, inbox, loop, stopped, ready, lines>>
  BY DEF FinalPull, dispatchVars, loopVars, attemptVars
<1>2. CASE entry /\ ready
  <2>1. owed' = lines
    BY <1>2 DEF FinalPull
  <2>2. \A n \in Nodes : lines[n] <= lines[n]
    BY Numbers
  <2> QED BY <1>1, <1>2, <2>1, <2>2 DEF Ending
<1>3. CASE ~(entry /\ ready)
  <2>1. owed' = owed
    BY <1>3 DEF FinalPull
  <2> QED BY <1>1, <2>1 DEF Ending
<1> QED BY <1>2, <1>3

\* The end of a pull leaves end where it is.
LEMMA EndingEndPull ==
    ASSUME Control, Reads, Ending, NEW p \in Pullers, EndPull(p)
    PROVE  Ending'
<1>1. UNCHANGED <<sandbox, ending, inbox, ready, lines, owed>>
  BY DEF EndPull, LoopReturns, dispatchVars, attemptVars
<1>2. loop' \in {"last pull", "in last pull"} => loop' = loop
  BY DEF EndPull, LoopReturns
<1>4. stopped => stopped'
  BY DEF EndPull, LoopReturns, StopAsked
<1>3. hook' = hook \/ (hook \in {"pulling", "waiting"} /\ hook' = "done")
  <2>1. CASE p = "hook"
    BY <2>1 DEF EndPull, Wants, Reads
  <2>2. CASE p = "loop"
    <3>1. p # "hook"
      BY <2>2
    <3>2. hook' = hook
      BY <3>1 DEF EndPull
    <3> QED BY <3>2
  <2> QED BY <2>1, <2>2 DEF Pullers
<1> QED BY <1>1, <1>2, <1>3, <1>4 DEF Ending

\* End goes on when the hook is done, or without it, which is a fault.
LEMMA OwingHookReturns ==
    ASSUME Data, Owing, HookReturns
    PROVE  Owing'
<1>1. faults \in Nat
  BY Numbers
<1>2. CASE hook = "done" /\ UNCHANGED faults
  BY <1>2 DEF HookReturns, Owing, recorderVars, loopVars, pullVars, logVars
<1>3. CASE faults' = faults + 1
  BY <1>1, <1>3 DEF Owing
<1> QED BY <1>2, <1>3 DEF HookReturns

\* End asks for the final pull, or nothing is owed.
LEMMA OwingFinalPull ==
    ASSUME Data, Ending, Owing, FinalPull
    PROVE  Owing'
<1>1. /\ hook = "idle" /\ hook' \in {"waiting", "done"} /\ ending = "hook"
      /\ hook' = "done" => owed' = owed
      /\ UNCHANGED <<faults, ending, stopped, final, offsets>>
  BY DEF FinalPull, loopVars, pullVars, logVars, attemptVars
<1>2. \A n \in Nodes : owed[n] = 0
  BY <1>1 DEF Ending
<1>3. \A n \in Nodes : 0 <= offsets[n]
  BY Numbers
<1> QED BY <1>1, <1>2, <1>3 DEF Owing

\* The hook's pull ends when it has every node, or has nothing to do.
LEMMA OwingEndPull ==
    ASSUME Data, Reads, Ending, Owing, NEW p \in Pullers, EndPull(p)
    PROVE  Owing'
<1>1. UNCHANGED <<faults, ending, final, todo, read, offsets, owed>>
  BY DEF EndPull, logVars, attemptVars
<1>2. CASE p = "hook"
  <2>1. hook' = "done"
    BY <1>2 DEF EndPull
  <2>2. CASE p \in pulling /\ todo[p] = {}
    <3>1. hook = "pulling"
      BY <1>2, <2>2 DEF Reads
    <3> QED BY <1>1, <1>2, <2>1, <2>2, <3>1 DEF Owing
  <2>3. CASE hook = "waiting" /\ (final \/ ~ready)
    <3>1. faults = 0 => ~ready
      BY <2>3 DEF Owing
    <3>2. ~ready => \A n \in Nodes : owed[n] = 0
      BY DEF Ending
    <3>3. \A n \in Nodes : 0 <= offsets[n]
      BY Numbers
    <3> QED BY <1>1, <2>1, <3>1, <3>2, <3>3 DEF Owing
  <2> QED BY <1>2, <2>2, <2>3 DEF EndPull, Wants, Useless
<1>3. CASE p = "loop"
  <2>1. UNCHANGED <<hook, stopped>>
    BY <1>3 DEF EndPull, LoopReturns
  <2> QED BY <1>1, <2>1 DEF Owing
<1> QED BY <1>2, <1>3 DEF Pullers

\* The hook reads what is owed, as end waits for it, or fails.
LEMMA OwingRead ==
    ASSUME Control, Data, Logged, Reads, Ending, Owing,
           NEW p \in Pullers, NEW n \in Nodes, Read(p, n)
    PROVE  Owing'
<1>1. /\ UNCHANGED <<ending, stopped, final, offsets, owed, hook>>
      /\ p \in pulling
  BY DEF Read, loopVars, logVars
<1>2. read \in [Pullers -> SUBSET Segment] /\ todo \in [Pullers -> SUBSET Nodes] /\ "hook" \in Pullers
  BY DEF Data, Control, Pullers
<1>3. CASE /\ read' = [read EXCEPT ![p] = {[node |-> n, from |-> offsets[n], upto |-> lines[n]]}]
           /\ UNCHANGED <<todo, faults>>
  <2>1. CASE p = "hook"
    <3>1. read'["hook"] = {[node |-> n, from |-> offsets[n], upto |-> lines[n]]}
      BY <1>2, <1>3, <2>1
    <3>2. owed[n] <= lines[n]
      BY DEF Ending
    <3> QED BY <1>1, <1>3, <3>1, <3>2 DEF Owing
  <2>2. CASE p # "hook"
    <3>1. read'["hook"] = read["hook"]
      BY <1>2, <1>3, <2>2
    <3> QED BY <1>1, <1>3, <3>1 DEF Owing
  <2> QED BY <2>1, <2>2
<1>4. CASE /\ todo' = [todo EXCEPT ![p] = @ \ {n}] /\ UNCHANGED read
           /\ faults' = 0 => faults = 0 /\ Gone(p)
  <2>1. CASE faults' # 0
    BY <2>1 DEF Owing
  <2>2. CASE p = "hook" /\ faults' = 0
    <3>1. hook = "pulling" /\ ending = "hook" /\ sandbox
      BY <1>1, <1>4, <2>2 DEF Reads, Owing, Ending
    <3>2. ~Gone(p)
      BY <2>2, <3>1 DEF Gone
    <3> QED BY <1>4, <2>2, <3>2
  <2>3. CASE p # "hook" /\ faults' = 0
    <3>1. todo'["hook"] = todo["hook"]
      BY <1>2, <1>4, <2>3
    <3> QED BY <1>1, <1>4, <2>3, <3>1 DEF Owing
  <2> QED BY <2>1, <2>2, <2>3
<1> QED BY <1>3, <1>4, ReadEffect

\* What the hook read and stored is no longer owed.
LEMMA OwingAppend ==
    ASSUME Control, Data, Logged, Reads, Owing, NEW p \in Pullers, NEW r \in read[p], Append1(p, r)
    PROVE  Owing'
<1>1. CASE faults' # 0
  BY <1>1 DEF Owing
<1>2. CASE faults' = 0
  <2>1. faults = 0 /\ offsets'[r.node] = r.upto
    BY <1>2, AppendEffect
  <2>2. r.node \in Nodes
    BY ReadType
  <2>3. \A n \in Nodes : /\ offsets[n] <= offsets'[n] /\ offsets'[n] \in 0..MaxLines
                         /\ n # r.node => offsets'[n] = offsets[n]
    BY AppendEffect
  <2>4. \A n \in Nodes : owed[n] <= offsets[n] => owed[n] <= offsets'[n]
    BY <2>3, Numbers, Bounds
  <2>5. /\ UNCHANGED <<ending, stopped, final, owed, hook>>
        /\ read' = [read EXCEPT ![p] = {}] /\ todo' = [todo EXCEPT ![p] = @ \ {r.node}]
    BY DEF Append1, loopVars
  <2>6. hook = "pulling" => p = "hook"
    BY DEF Reads, Control, Pullers
  <2>7. read \in [Pullers -> SUBSET Segment] /\ todo \in [Pullers -> SUBSET Nodes] /\ "hook" \in Pullers
    BY DEF Data, Control, Pullers
  <2>8. CASE hook = "pulling"
    <3>1. read'["hook"] = {} /\ todo'["hook"] = todo["hook"] \ {r.node} /\ owed[r.node] <= r.upto
      BY <2>1, <2>5, <2>6, <2>7, <2>8 DEF Owing
    <3> QED BY <2>1, <2>4, <2>5, <2>8, <3>1 DEF Owing
  <2>9. CASE hook # "pulling"
    BY <2>1, <2>4, <2>5, <2>9 DEF Owing
  <2> QED BY <2>8, <2>9
<1> QED BY <1>1, <1>2

-----------------------------------------------------------------------------
(* Every step keeps it.                                                    *)

\* Every step keeps the flags' types.
LEMMA FlagsStep ==
    ASSUME Flags, Next
    PROVE  Flags'
<1> USE Bounds DEF vars, attemptVars, busVars, recorderVars, dispatchVars, loopVars, pullVars, logVars,
        Events, Pullers, Flags
<1>1. CASE Announce
  BY <1>1, PublishQueue DEF Announce, Publish
<1>2. CASE HookReturns
  BY <1>2 DEF HookReturns
<1>3. CASE AnnounceEnd
  BY <1>3, PublishQueue DEF AnnounceEnd, Publish
<1>4. CASE Destroy
  BY <1>4 DEF Destroy
<1>5. CASE End
  BY <1>5 DEF End
<1>6. CASE OtherEvent
  BY <1>6, PublishQueue DEF OtherEvent, Publish
<1>7. ASSUME NEW n \in Nodes, Enter(n) PROVE Flags'
  BY <1>7 DEF Enter
<1>8. CASE Dispatch
  BY <1>8, DispatchQueue DEF Dispatch, StopAsked
<1>9. CASE DispatcherEnds
  BY <1>9 DEF DispatcherEnds
<1>10. CASE Close
  BY <1>10 DEF Close, CancelledByClose
<1>11. CASE Load
  BY <1>11 DEF Load, LoopReturns
<1>12. CASE LoopCancelled
  BY <1>12 DEF LoopCancelled, LoopReturns
<1>13. CASE Stopped
  BY <1>13 DEF Stopped
<1>14. CASE Tick
  BY <1>14 DEF Tick
<1>15. CASE FinalPull
  BY <1>15 DEF FinalPull
<1>16. ASSUME NEW p \in Pullers, BeginPull(p) PROVE Flags'
  BY <1>16 DEF BeginPull, Wants, LockFree, Useless, IsFinal
<1>17. ASSUME NEW p \in Pullers, EndPull(p) PROVE Flags'
  BY ZenonT(40), <1>17 DEF EndPull, Wants, LockFree, Useless, Unlocked, StopAsked, LoopReturns
<1>18. ASSUME NEW p \in Pullers, NEW n \in Nodes, Read(p, n) PROVE Flags'
  BY <1>18 DEF Read, Gone
<1>19. ASSUME NEW p \in Pullers, NEW r \in read[p], Append1(p, r) PROVE Flags'
  BY <1>19 DEF Append1, OffsetAfter
<1> QED BY <1>1, <1>2, <1>3, <1>4, <1>5, <1>6, <1>7, <1>8, <1>9, <1>10, <1>11, <1>12, <1>13, <1>14,
        <1>15, <1>16, <1>17, <1>18, <1>19 DEF Next, ServiceStep, LoopSteps, HookSteps, PullSteps

\* Every step keeps Control.
LEMMA ControlStep ==
    ASSUME Control, Next
    PROVE  Control'
<1> USE Bounds DEF vars, attemptVars, busVars, recorderVars, dispatchVars, loopVars, pullVars, logVars,
        Events, Pullers, Control
<1>1. CASE Announce
  BY <1>1, PublishQueue DEF Announce, Publish
<1>2. CASE HookReturns
  BY <1>2 DEF HookReturns
<1>3. CASE AnnounceEnd
  BY <1>3, PublishQueue DEF AnnounceEnd, Publish
<1>4. CASE Destroy
  BY <1>4 DEF Destroy
<1>5. CASE End
  BY <1>5 DEF End
<1>6. CASE OtherEvent
  BY <1>6, PublishQueue DEF OtherEvent, Publish
<1>7. ASSUME NEW n \in Nodes, Enter(n) PROVE Control'
  BY <1>7 DEF Enter
<1>8. CASE Dispatch
  BY <1>8, DispatchQueue DEF Dispatch, StopAsked
<1>9. CASE DispatcherEnds
  BY <1>9 DEF DispatcherEnds
<1>10. CASE Close
  BY <1>10 DEF Close, CancelledByClose
<1>11. CASE Load
  BY <1>11 DEF Load, LoopReturns
<1>12. CASE LoopCancelled
  BY <1>12 DEF LoopCancelled, LoopReturns
<1>13. CASE Stopped
  BY <1>13 DEF Stopped
<1>14. CASE Tick
  BY <1>14 DEF Tick
<1>15. CASE FinalPull
  BY <1>15 DEF FinalPull
<1>16. ASSUME NEW p \in Pullers, BeginPull(p) PROVE Control'
  BY <1>16 DEF BeginPull, Wants, LockFree, Useless, IsFinal
<1>17. ASSUME NEW p \in Pullers, EndPull(p) PROVE Control'
  BY <1>17 DEF EndPull, Wants, LockFree, Useless, Unlocked, StopAsked, LoopReturns
<1>18. ASSUME NEW p \in Pullers, NEW n \in Nodes, Read(p, n) PROVE Control'
  BY <1>18 DEF Read, Gone
<1>19. ASSUME NEW p \in Pullers, NEW r \in read[p], Append1(p, r) PROVE Control'
  BY <1>19 DEF Append1, OffsetAfter
<1> QED BY <1>1, <1>2, <1>3, <1>4, <1>5, <1>6, <1>7, <1>8, <1>9, <1>10, <1>11, <1>12, <1>13, <1>14,
        <1>15, <1>16, <1>17, <1>18, <1>19 DEF Next, ServiceStep, LoopSteps, HookSteps, PullSteps

\* Every step keeps Data.
LEMMA DataStep ==
    ASSUME Data, Logged, Reads, Next
    PROVE  Data'
<1> USE Bounds DEF vars, attemptVars, busVars, recorderVars, dispatchVars, loopVars, pullVars, logVars,
        Events, Pullers, Data, Segment
<1>1. CASE Announce
  BY <1>1, PublishQueue DEF Announce, Publish
<1>2. CASE HookReturns
  <2>1. faults' = faults \/ faults' = faults + 1
    BY <1>2 DEF HookReturns
  <2> QED BY <1>2, <2>1 DEF HookReturns
<1>3. CASE AnnounceEnd
  BY <1>3, PublishQueue DEF AnnounceEnd, Publish
<1>4. CASE Destroy
  BY <1>4 DEF Destroy
<1>5. CASE End
  BY <1>5 DEF End
<1>6. CASE OtherEvent
  BY <1>6, PublishQueue DEF OtherEvent, Publish
<1>7. ASSUME NEW n \in Nodes, Enter(n) PROVE Data'
  BY <1>7 DEF Enter
<1>8. CASE Dispatch
  BY <1>8, DispatchQueue DEF Dispatch, StopAsked
<1>9. CASE DispatcherEnds
  BY <1>9 DEF DispatcherEnds
<1>10. CASE Close
  BY <1>10 DEF Close, CancelledByClose
<1>11. CASE Load
  BY <1>11 DEF Load, LoopReturns
<1>12. CASE LoopCancelled
  BY <1>12 DEF LoopCancelled, LoopReturns
<1>13. CASE Stopped
  BY <1>13 DEF Stopped
<1>14. CASE Tick
  BY <1>14 DEF Tick
<1>15. CASE FinalPull
  BY <1>15 DEF FinalPull
<1>16. ASSUME NEW p \in Pullers, BeginPull(p) PROVE Data'
  BY <1>16 DEF BeginPull, Wants, LockFree, Useless, IsFinal
<1>17. ASSUME NEW p \in Pullers, EndPull(p) PROVE Data'
  BY <1>17 DEF EndPull, Wants, LockFree, Useless, Unlocked, StopAsked, LoopReturns
<1>18. ASSUME NEW p \in Pullers, NEW n \in Nodes, Read(p, n) PROVE Data'
  <2>1. faults' \in Nat /\ read' \in [Pullers -> SUBSET Segment]
    BY <1>18, ReadEffect
  <2> QED BY <1>18, <2>1 DEF Read
<1>19. ASSUME NEW p \in Pullers, NEW r \in read[p], Append1(p, r) PROVE Data'
  <2>1. faults' \in Nat /\ offsets' \in [Nodes -> 0..MaxLines] /\ log' \in [Nodes -> Seq(Nat)]
    BY <1>19, AppendEffect
  <2> QED BY <1>19, <2>1 DEF Append1
<1> QED BY <1>1, <1>2, <1>3, <1>4, <1>5, <1>6, <1>7, <1>8, <1>9, <1>10, <1>11, <1>12, <1>13, <1>14,
        <1>15, <1>16, <1>17, <1>18, <1>19 DEF Next, ServiceStep, LoopSteps, HookSteps, PullSteps

\* Every step keeps Logged.
LEMMA LoggedStep ==
    ASSUME Data, Logged, Reads, Next
    PROVE  Logged'
<1> USE Bounds DEF vars, attemptVars, busVars, recorderVars, dispatchVars, loopVars, pullVars, logVars,
        Events, Pullers, Data, Segment, Logged
<1>1. CASE Announce
  BY <1>1, PublishQueue DEF Announce, Publish
<1>2. CASE HookReturns
  BY <1>2 DEF HookReturns
<1>3. CASE AnnounceEnd
  BY <1>3, PublishQueue DEF AnnounceEnd, Publish
<1>4. CASE Destroy
  BY <1>4 DEF Destroy
<1>5. CASE End
  BY <1>5 DEF End
<1>6. CASE OtherEvent
  BY <1>6, PublishQueue DEF OtherEvent, Publish
<1>7. ASSUME NEW n \in Nodes, Enter(n) PROVE Logged'
  BY <1>7 DEF Enter
<1>8. CASE Dispatch
  BY <1>8, DispatchQueue DEF Dispatch, StopAsked
<1>9. CASE DispatcherEnds
  BY <1>9 DEF DispatcherEnds
<1>10. CASE Close
  BY <1>10 DEF Close, CancelledByClose
<1>11. CASE Load
  BY <1>11 DEF Load, LoopReturns
<1>12. CASE LoopCancelled
  BY <1>12 DEF LoopCancelled, LoopReturns
<1>13. CASE Stopped
  BY <1>13 DEF Stopped
<1>14. CASE Tick
  BY <1>14 DEF Tick
<1>15. CASE FinalPull
  BY <1>15 DEF FinalPull
<1>16. ASSUME NEW p \in Pullers, BeginPull(p) PROVE Logged'
  BY <1>16 DEF BeginPull, Wants, LockFree, Useless, IsFinal
<1>17. ASSUME NEW p \in Pullers, EndPull(p) PROVE Logged'
  BY <1>17 DEF EndPull, Wants, LockFree, Useless, Unlocked, StopAsked, LoopReturns
<1>18. ASSUME NEW p \in Pullers, NEW n \in Nodes, Read(p, n) PROVE Logged'
  BY <1>18 DEF Read, Gone
<1>19. ASSUME NEW p \in Pullers, NEW r \in read[p], Append1(p, r) PROVE Logged'
  <2>1. \A n \in Nodes : offsets'[n] <= lines[n] /\ IsPrefix(log'[n], offsets'[n])
    BY <1>19, AppendEffect
  <2> QED BY <1>19, <2>1 DEF Append1
<1> QED BY <1>1, <1>2, <1>3, <1>4, <1>5, <1>6, <1>7, <1>8, <1>9, <1>10, <1>11, <1>12, <1>13, <1>14,
        <1>15, <1>16, <1>17, <1>18, <1>19 DEF Next, ServiceStep, LoopSteps, HookSteps, PullSteps

\* Every step keeps Reads.
LEMMA ReadsStep ==
    ASSUME Control, Data, Logged, Reads, StartedOnce, Next
    PROVE  Reads'
<1> USE Bounds DEF vars, attemptVars, busVars, recorderVars, dispatchVars, loopVars, pullVars, logVars,
        Events, Pullers, Control, Data, Segment, Logged, Reads, StartedOnce
<1>1. CASE Announce
  BY <1>1, PublishQueue DEF Announce, Publish
<1>2. CASE HookReturns
  BY <1>2 DEF HookReturns
<1>3. CASE AnnounceEnd
  BY <1>3, PublishQueue DEF AnnounceEnd, Publish
<1>4. CASE Destroy
  BY <1>4 DEF Destroy
<1>5. CASE End
  BY <1>5 DEF End
<1>6. CASE OtherEvent
  BY <1>6, PublishQueue DEF OtherEvent, Publish
<1>7. ASSUME NEW n \in Nodes, Enter(n) PROVE Reads'
  BY <1>7, ReadsEnter
<1>8. CASE Dispatch
  BY <1>8, DispatchQueue DEF Dispatch, StopAsked
<1>9. CASE DispatcherEnds
  BY <1>9 DEF DispatcherEnds
<1>10. CASE Close
  BY <1>10 DEF Close, CancelledByClose
<1>11. CASE Load
  BY <1>11 DEF Load, LoopReturns
<1>12. CASE LoopCancelled
  BY <1>12 DEF LoopCancelled, LoopReturns
<1>13. CASE Stopped
  BY <1>13 DEF Stopped
<1>14. CASE Tick
  BY <1>14 DEF Tick
<1>15. CASE FinalPull
  BY <1>15 DEF FinalPull
<1>16. ASSUME NEW p \in Pullers, BeginPull(p) PROVE Reads'
  BY <1>16 DEF BeginPull, Wants, LockFree, Useless, IsFinal
<1>17. ASSUME NEW p \in Pullers, EndPull(p) PROVE Reads'
  BY <1>17 DEF EndPull, Wants, LockFree, Useless, Unlocked, StopAsked, LoopReturns
<1>18. ASSUME NEW p \in Pullers, NEW n \in Nodes, Read(p, n) PROVE Reads'
  BY <1>18, ReadsRead
<1>19. ASSUME NEW p \in Pullers, NEW r \in read[p], Append1(p, r) PROVE Reads'
  BY <1>19 DEF Append1, OffsetAfter
<1> QED BY <1>1, <1>2, <1>3, <1>4, <1>5, <1>6, <1>7, <1>8, <1>9, <1>10, <1>11, <1>12, <1>13, <1>14,
        <1>15, <1>16, <1>17, <1>18, <1>19 DEF Next, ServiceStep, LoopSteps, HookSteps, PullSteps

\* Every step keeps StartedOnce.
LEMMA StartedOnceStep ==
    ASSUME Flags, Control, StartedOnce, Next
    PROVE  StartedOnce'
<1> USE Bounds DEF vars, attemptVars, busVars, recorderVars, dispatchVars, loopVars, pullVars, logVars,
        Events, Pullers, Flags, Control, StartedOnce
<1>1. CASE Announce
  BY <1>1, PublishQueue DEF Announce, Publish
<1>2. CASE HookReturns
  BY <1>2 DEF HookReturns
<1>3. CASE AnnounceEnd
  BY <1>3, PublishQueue DEF AnnounceEnd, Publish
<1>4. CASE Destroy
  BY <1>4 DEF Destroy
<1>5. CASE End
  BY <1>5 DEF End
<1>6. CASE OtherEvent
  BY <1>6, PublishQueue DEF OtherEvent, Publish
<1>7. ASSUME NEW n \in Nodes, Enter(n) PROVE StartedOnce'
  BY <1>7 DEF Enter
<1>8. CASE Dispatch
  BY <1>8, DispatchQueue DEF Dispatch, StopAsked
<1>9. CASE DispatcherEnds
  BY <1>9 DEF DispatcherEnds
<1>10. CASE Close
  BY <1>10 DEF Close, CancelledByClose
<1>11. CASE Load
  BY <1>11 DEF Load, LoopReturns
<1>12. CASE LoopCancelled
  BY <1>12 DEF LoopCancelled, LoopReturns
<1>13. CASE Stopped
  BY <1>13 DEF Stopped
<1>14. CASE Tick
  BY <1>14 DEF Tick
<1>15. CASE FinalPull
  BY <1>15 DEF FinalPull
<1>16. ASSUME NEW p \in Pullers, BeginPull(p) PROVE StartedOnce'
  BY <1>16 DEF BeginPull, Wants, LockFree, Useless, IsFinal
<1>17. ASSUME NEW p \in Pullers, EndPull(p) PROVE StartedOnce'
  BY <1>17 DEF EndPull, Wants, LockFree, Useless, Unlocked, StopAsked, LoopReturns
<1>18. ASSUME NEW p \in Pullers, NEW n \in Nodes, Read(p, n) PROVE StartedOnce'
  BY <1>18 DEF Read, Gone
<1>19. ASSUME NEW p \in Pullers, NEW r \in read[p], Append1(p, r) PROVE StartedOnce'
  BY <1>19 DEF Append1, OffsetAfter
<1> QED BY <1>1, <1>2, <1>3, <1>4, <1>5, <1>6, <1>7, <1>8, <1>9, <1>10, <1>11, <1>12, <1>13, <1>14,
        <1>15, <1>16, <1>17, <1>18, <1>19 DEF Next, ServiceStep, LoopSteps, HookSteps, PullSteps

\* Every step keeps Ending.
LEMMA EndingStep ==
    ASSUME Flags, Control, Data, Reads, StartedOnce, Ending, Next
    PROVE  Ending'
<1> USE Bounds DEF vars, attemptVars, busVars, recorderVars, dispatchVars, loopVars, pullVars, logVars,
        Events, Pullers, Flags, Control, Data, StartedOnce, Ending
<1>1. CASE Announce
  BY <1>1, PublishQueue DEF Announce, Publish
<1>2. CASE HookReturns
  BY <1>2 DEF HookReturns
<1>3. CASE AnnounceEnd
  BY <1>3, PublishQueue DEF AnnounceEnd, Publish
<1>4. CASE Destroy
  BY <1>4 DEF Destroy
<1>5. CASE End
  BY <1>5 DEF End
<1>6. CASE OtherEvent
  BY <1>6, PublishQueue DEF OtherEvent, Publish
<1>7. ASSUME NEW n \in Nodes, Enter(n) PROVE Ending'
  BY <1>7, EndingEnter
<1>8. CASE Dispatch
  <2>1. Queued(inbox', "ended") => Queued(inbox, "ended")
    BY <1>8, DispatchQueue DEF Dispatch
  <2>2. loop' \in {"last pull", "in last pull"} => loop' = loop
    BY <1>8 DEF Dispatch
  <2>3. stopped => stopped'
    BY <1>8 DEF Dispatch, StopAsked
  <2>4. UNCHANGED <<sandbox, ending, hook, ready, owed, lines>>
    BY <1>8 DEF Dispatch
  <2> QED BY <2>1, <2>2, <2>3, <2>4
<1>9. CASE DispatcherEnds
  BY <1>9 DEF DispatcherEnds
<1>10. CASE Close
  BY <1>10 DEF Close, CancelledByClose
<1>11. CASE Load
  BY <1>11 DEF Load, LoopReturns
<1>12. CASE LoopCancelled
  BY <1>12 DEF LoopCancelled, LoopReturns
<1>13. CASE Stopped
  BY <1>13 DEF Stopped
<1>14. CASE Tick
  BY <1>14 DEF Tick
<1>15. CASE FinalPull
  BY <1>15, EndingFinalPull
<1>16. ASSUME NEW p \in Pullers, BeginPull(p) PROVE Ending'
  BY <1>16 DEF BeginPull, Wants, LockFree, Useless, IsFinal
<1>17. ASSUME NEW p \in Pullers, EndPull(p) PROVE Ending'
  BY <1>17, EndingEndPull
<1>18. ASSUME NEW p \in Pullers, NEW n \in Nodes, Read(p, n) PROVE Ending'
  BY <1>18 DEF Read, Gone
<1>19. ASSUME NEW p \in Pullers, NEW r \in read[p], Append1(p, r) PROVE Ending'
  BY <1>19 DEF Append1, OffsetAfter
<1> QED BY <1>1, <1>2, <1>3, <1>4, <1>5, <1>6, <1>7, <1>8, <1>9, <1>10, <1>11, <1>12, <1>13, <1>14,
        <1>15, <1>16, <1>17, <1>18, <1>19 DEF Next, ServiceStep, LoopSteps, HookSteps, PullSteps

\* Every step keeps Owing.
LEMMA OwingStep ==
    ASSUME Flags, Control, Data, Logged, Reads, Ending, Owing, Next
    PROVE  Owing'
<1> USE Bounds DEF vars, attemptVars, busVars, recorderVars, dispatchVars, loopVars, pullVars, logVars,
        Events, Pullers, Control, Data, Segment, Logged, Reads, Ending, Owing
<1>1. CASE Announce
  BY <1>1, PublishQueue DEF Announce, Publish
<1>2. CASE HookReturns
  BY <1>2, OwingHookReturns
<1>3. CASE AnnounceEnd
  BY <1>3, PublishQueue DEF AnnounceEnd, Publish
<1>4. CASE Destroy
  BY <1>4 DEF Destroy
<1>5. CASE End
  BY <1>5 DEF End
<1>6. CASE OtherEvent
  BY <1>6, PublishQueue DEF OtherEvent, Publish
<1>7. ASSUME NEW n \in Nodes, Enter(n) PROVE Owing'
  BY <1>7 DEF Enter
<1>8. CASE Dispatch
  BY <1>8, DispatchQueue DEF Dispatch, StopAsked
<1>9. CASE DispatcherEnds
  BY <1>9 DEF DispatcherEnds
<1>10. CASE Close
  BY <1>10 DEF Close, CancelledByClose
<1>11. CASE Load
  BY <1>11 DEF Load, LoopReturns
<1>12. CASE LoopCancelled
  BY <1>12 DEF LoopCancelled, LoopReturns
<1>13. CASE Stopped
  BY <1>13 DEF Stopped
<1>14. CASE Tick
  BY <1>14 DEF Tick
<1>15. CASE FinalPull
  BY <1>15, OwingFinalPull
<1>16. ASSUME NEW p \in Pullers, BeginPull(p) PROVE Owing'
  BY <1>16 DEF BeginPull, Wants, LockFree, Useless, IsFinal
<1>17. ASSUME NEW p \in Pullers, EndPull(p) PROVE Owing'
  BY <1>17, OwingEndPull
<1>18. ASSUME NEW p \in Pullers, NEW n \in Nodes, Read(p, n) PROVE Owing'
  BY <1>18, OwingRead
<1>19. ASSUME NEW p \in Pullers, NEW r \in read[p], Append1(p, r) PROVE Owing'
  BY <1>19, OwingAppend
<1> QED BY <1>1, <1>2, <1>3, <1>4, <1>5, <1>6, <1>7, <1>8, <1>9, <1>10, <1>11, <1>12, <1>13, <1>14,
        <1>15, <1>16, <1>17, <1>18, <1>19 DEF Next, ServiceStep, LoopSteps, HookSteps, PullSteps

\* Every step keeps the invariant, and so does one that changes nothing.
LEMMA StepRecorder == RecorderInv /\ [Next]_vars => RecorderInv'
<1> SUFFICES ASSUME RecorderInv, [Next]_vars PROVE RecorderInv'
  OBVIOUS
<1>1. CASE Next
  BY <1>1, FlagsStep, ControlStep, DataStep, LoggedStep, ReadsStep, StartedOnceStep, EndingStep,
     OwingStep DEF RecorderInv
<1>2. CASE UNCHANGED vars
  <2> USE <1>2 DEF vars, attemptVars, busVars, recorderVars, dispatchVars, loopVars, pullVars, logVars
  <2>1. Control'
    BY DEF RecorderInv, Control
  <2>2. Logged' /\ StartedOnce'
    BY DEF RecorderInv, Logged, StartedOnce
  <2>3. Reads'
    BY DEF RecorderInv, Reads
  <2>4. Ending'
    BY DEF RecorderInv, Ending
  <2>5. Owing'
    BY DEF RecorderInv, Owing
  <2>6. Data'
    BY DEF RecorderInv, Data
  <2>7. Flags'
    BY DEF RecorderInv, Flags
  <2> QED BY <2>1, <2>2, <2>3, <2>4, <2>5, <2>6, <2>7 DEF RecorderInv
<1> QED BY <1>1, <1>2

\* It holds before the attempt is announced.
LEMMA InitRecorder == Init => RecorderInv
<1> SUFFICES ASSUME Init PROVE RecorderInv
  OBVIOUS
<1> USE Bounds DEF Init, Pullers
<1>1. /\ inbox \in Seq(Events) /\ Len(inbox) <= Buffer
      /\ \A m : ~Queued(inbox, m) /\ Once(inbox, m)
  BY EmptyChannel
<1>2. Flags
  BY DEF Flags
<1>3. Control
  BY <1>1 DEF Control
<1>4. Data
  BY DEF Data
<1>5. Logged
  BY DEF Logged, IsPrefix
<1>6. Reads
  BY DEF Reads
<1>7. StartedOnce /\ Ending /\ Owing
  BY <1>1 DEF StartedOnce, Ending, Owing
<1> QED BY <1>2, <1>3, <1>4, <1>5, <1>6, <1>7 DEF RecorderInv

-----------------------------------------------------------------------------
(* The theorems.                                                           *)

\* The Recorder keeps its invariant: types, one pull at a time, and how offsets,
\* rows and the lines of the nodes belong together.
THEOREM RecorderSafe == Spec => []RecorderInv
<1>1. Init => RecorderInv
  BY InitRecorder
<1>2. RecorderInv /\ [Next]_vars => RecorderInv'
  BY StepRecorder
<1> QED BY <1>1, <1>2, PTL DEF Spec

\* Every variable keeps its type, no two pulls have the lock, and no offset is
\* beyond the log.
THEOREM TypeOKHolds == Spec => []TypeOK
<1>1. RecorderInv => TypeOK
  <2> SUFFICES ASSUME RecorderInv PROVE TypeOK
    OBVIOUS
  <2>1. Cardinality(pulling) <= 1
    <3>1. Cardinality({}) = 0 /\ Cardinality({"loop"}) = 1 /\ Cardinality({"hook"}) = 1
      BY FS_EmptySet, FS_Singleton
    <3>2. pulling \in {{}, {"loop"}, {"hook"}}
      BY DEF RecorderInv, Control
    <3>3. Cardinality(pulling) = 0 \/ Cardinality(pulling) = 1
      BY <3>1, <3>2
    <3> QED BY <3>3
  <2>2. \A n \in Nodes : offsets[n] \in 0..lines[n] /\ lines[n] \in 0..MaxLines
    BY RecorderAssumption DEF RecorderInv, Data, Logged
  <2>3. \A p \in Pullers : read[p] \subseteq [node : Nodes, from : 0..MaxLines, upto : 0..MaxLines]
    BY DEF RecorderInv, Data, Segment
  <2>4. pulling \subseteq Pullers
    BY DEF RecorderInv, Control, Pullers
  <2> QED BY ZenonT(40), <2>1, <2>2, <2>3, <2>4 DEF RecorderInv, TypeOK, Flags, Control, Events
<1> QED BY <1>1, RecorderSafe, PTL

\* command_log gets every line of a node once and in order, whatever pulls of the
\* loop and of end's hook fail or wait for each other (pull, AppendCommands).
THEOREM LoggedOnceHolds == Spec => []LoggedOnce
<1>1. RecorderInv => LoggedOnce
  <2> SUFFICES ASSUME RecorderInv, NEW n \in Nodes PROVE log[n] = [k \in 1..Len(log[n]) |-> k]
    BY DEF LoggedOnce
  <2>1. log[n] \in Seq(Nat) /\ \A k \in 1..Len(log[n]) : log[n][k] = k
    BY DEF RecorderInv, Data, Logged, IsPrefix
  <2> QED BY <2>1
<1> QED BY <1>1, RecorderSafe, PTL

\* When nothing failed, the lines that end found when it asked for the final pull
\* are in command_log before the sandbox is gone (finalPull, end).
THEOREM EnteredIsLoggedHolds == Spec => []EnteredIsLogged
<1>1. RecorderInv => EnteredIsLogged
  <2> SUFFICES ASSUME RecorderInv, ~sandbox, faults = 0, NEW n \in Nodes PROVE Len(log[n]) >= owed[n]
    BY DEF EnteredIsLogged
  <2>1. hook = "done"
    BY DEF RecorderInv, Control, Ending, Owing
  <2>2. owed[n] <= offsets[n] /\ Len(log[n]) = offsets[n] /\ owed[n] \in Nat /\ offsets[n] \in Nat
    BY <2>1, RecorderAssumption DEF RecorderInv, Owing, Logged, IsPrefix, Data
  <2> QED BY <2>2
<1> QED BY <1>1, RecorderSafe, PTL
=============================================================================
