--------------------------- MODULE JournalProofs ---------------------------
(***************************************************************************)
(* What the command journal promises, for any number of commands, drops,   *)
(* crashes and any threshold of compaction.                                *)
(*                                                                         *)
(* First the file: what one more line, and what compact(), do to the entry *)
(* that load() finds.  Then the invariant: while the supervisor's memory   *)
(* is what the file says, a command that was begun is known to the file    *)
(* until its client is answered, and a client that has been answered sends *)
(* nothing more.  A crash that cuts an append short may join two records   *)
(* and lose both, so the theorems after the types assume that none does:   *)
(* Tears = {}.                                                             *)
(***************************************************************************)
EXTENDS CommandJournal, FiniteSetTheorems, SequenceTheorems, TLAPS

\* Receipts, results and acknowledgements are different lines.
LEMMA LinesDiffer ==
    \A c, d :
        /\ Line("received", c) # Line("result", d)
        /\ Line("received", c) # Line("acknowledged", d)
        /\ Line("result", c) # Line("acknowledged", d)
        /\ c # d => /\ Line("received", c) # Line("received", d)
                    /\ Line("result", c) # Line("result", d)
                    /\ Line("acknowledged", c) # Line("acknowledged", d)
BY DEF Line

\* The receipt that load() finds last, and whether its result follows.
Latest(s, c, i) ==
    /\ i \in 1..Len(s) /\ s[i] = Line("received", c)
    /\ \A j \in 1..Len(s) : j > i => s[j] # Line("received", c) /\ s[j] # Line("acknowledged", c)
HasResult(s, c, i) == \E j \in 1..Len(s) : j > i /\ s[j] = Line("result", c)

\* What load() finds, read off the last receipt.
LEMMA RecoveredIs ==
    ASSUME NEW S, NEW s \in Seq(S), NEW c
    PROVE  /\ (\A i \in 1..Len(s) : ~Latest(s, c, i)) => Recovered(s, c) = "none"
           /\ \A i \in 1..Len(s) : Latest(s, c, i) =>
                 Recovered(s, c) = IF HasResult(s, c, i) THEN "complete" ELSE "pending"
<1>1. DOMAIN s = 1..Len(s)
  OBVIOUS
<1>2. \A i, k \in 1..Len(s) : Latest(s, c, i) /\ Latest(s, c, k) => i = k
  BY DEF Latest
<1>3. ASSUME \A i \in 1..Len(s) : ~Latest(s, c, i)
      PROVE  Recovered(s, c) = "none"
  BY <1>1, <1>3 DEF Recovered, Latest
<1>4. ASSUME NEW i \in 1..Len(s), Latest(s, c, i)
      PROVE  Recovered(s, c) = IF HasResult(s, c, i) THEN "complete" ELSE "pending"
  <2>1. {k \in DOMAIN s : /\ s[k] = Line("received", c)
                          /\ \A j \in DOMAIN s : j > k =>
                               s[j] \notin {Line("received", c), Line("acknowledged", c)}} = {i}
    BY <1>1, <1>2, <1>4 DEF Latest
  <2> QED
    BY <1>1, <2>1 DEF Recovered, HasResult
<1> QED
  BY <1>3, <1>4

\* What one more line does to what load() finds.
LEMMA RecoveredAppend ==
    ASSUME NEW S, NEW s \in Seq(S), NEW line \in S, NEW c
    PROVE  LET t == Append(s, line) IN
           /\ line = Line("received", c) => Recovered(t, c) = "pending"
           /\ line = Line("acknowledged", c) => Recovered(t, c) = "none"
           /\ line = Line("result", c) =>
                 Recovered(t, c) = IF Recovered(s, c) = "none" THEN "none" ELSE "complete"
           /\ line \notin {Line("received", c), Line("result", c), Line("acknowledged", c)} =>
                 Recovered(t, c) = Recovered(s, c)
<1> DEFINE t == Append(s, line)
           n == Len(s)
<1>1. /\ n \in Nat /\ t \in Seq(S) /\ Len(t) = n + 1 /\ t[n + 1] = line
      /\ \A i \in 1..n : t[i] = s[i]
  OBVIOUS
<1> HIDE DEF t, n
<1>r. /\ (\A i \in 1..n : ~Latest(s, c, i)) => Recovered(s, c) = "none"
      /\ \A i \in 1..n : Latest(s, c, i) =>
            Recovered(s, c) = IF HasResult(s, c, i) THEN "complete" ELSE "pending"
      /\ (\A i \in 1..(n + 1) : ~Latest(t, c, i)) => Recovered(t, c) = "none"
      /\ \A i \in 1..(n + 1) : Latest(t, c, i) =>
            Recovered(t, c) = IF HasResult(t, c, i) THEN "complete" ELSE "pending"
  BY RecoveredIs, <1>1 DEF n
<1>2. ASSUME line = Line("received", c)
      PROVE  Recovered(t, c) = "pending"
  <2>1. Latest(t, c, n + 1) /\ ~HasResult(t, c, n + 1)
    BY <1>1, <1>2 DEF Latest, HasResult
  <2> QED
    BY <1>1, <1>r, <2>1
<1>3. ASSUME line = Line("acknowledged", c)
      PROVE  Recovered(t, c) = "none"
  <2>1. \A i \in 1..(n + 1) : ~Latest(t, c, i)
    BY <1>1, <1>3, LinesDiffer DEF Latest
  <2> QED
    BY <1>r, <2>1
<1>4. ASSUME line # Line("received", c), line # Line("acknowledged", c)
      PROVE  /\ \A i \in 1..n : Latest(t, c, i) <=> Latest(s, c, i)
             /\ ~Latest(t, c, n + 1)
  BY <1>1, <1>4 DEF Latest, n
<1>5. ASSUME line = Line("result", c)
      PROVE  Recovered(t, c) = IF Recovered(s, c) = "none" THEN "none" ELSE "complete"
  <2>1. \A i \in 1..n : HasResult(t, c, i)
    BY <1>1, <1>5 DEF HasResult
  <2> QED
    BY <1>1, <1>4, <1>5, <1>r, <2>1, LinesDiffer
<1>6. ASSUME line \notin {Line("received", c), Line("result", c), Line("acknowledged", c)}
      PROVE  Recovered(t, c) = Recovered(s, c)
  <2>1. \A i \in 1..n : HasResult(t, c, i) <=> HasResult(s, c, i)
    BY <1>1, <1>6 DEF HasResult, n
  <2> QED
    BY <1>1, <1>4, <1>6, <1>r, <2>1
<1> QED
  BY <1>2, <1>3, <1>5, <1>6 DEF t

\* SetToSeq lists every element of a finite set, once.
LEMMA SetToSeqLists ==
    ASSUME NEW S, IsFiniteSet(S)
    PROVE  /\ SetToSeq(S) \in Seq(S) /\ IsInjective(SetToSeq(S))
           /\ \A x \in S : \E i \in DOMAIN SetToSeq(S) : SetToSeq(S)[i] = x
<1> DEFINE n == Cardinality(S)
<1>1. n \in Nat /\ ExistsBijection(1..n, S)
  BY FS_CardinalityType
<1>2. \E f \in [1..n -> S] : IsInjective(f)
  BY <1>1 DEF ExistsBijection, Bijection, Injection
<1>3. SetToSeq(S) \in [1..n -> S] /\ IsInjective(SetToSeq(S))
  BY <1>2 DEF SetToSeq
<1>4. SetToSeq(S) \in Injection(1..n, S)
  BY <1>3 DEF Injection
<1>5. IsFiniteSet(1..n) /\ Cardinality(1..n) = n
  BY <1>1, FS_Interval
<1>6. SetToSeq(S) \in Surjection(1..n, S)
  BY <1>4, <1>5, FS_Injection
<1> QED
  BY <1>1, <1>3, <1>6 DEF Surjection

\* compact() writes what it knows.
LEMMA RecoveredCompact ==
    ASSUME NEW es \in [Commands -> Entry]
    PROVE  /\ Compacted(es) \in Seq(Lines)
           /\ \A c \in Commands : Recovered(Compacted(es), c) = es[c]
<1> DEFINE K == {c \in Commands : es[c] # "none"}
           D == {c \in Commands : es[c] = "complete"}
           known == SetToSeq(K)
           complete == SetToSeq(D)
           rs == [i \in DOMAIN known |-> Line("received", known[i])]
           ds == [i \in DOMAIN complete |-> Line("result", complete[i])]
           m == Len(known)
           n == Len(complete)
           t == Compacted(es)
<1>1. IsFiniteSet(K) /\ IsFiniteSet(D)
  BY JournalAssumption, FS_Subset
<1>2. /\ known \in Seq(K) /\ IsInjective(known)
      /\ \A c \in K : \E i \in DOMAIN known : known[i] = c
      /\ complete \in Seq(D) /\ \A c \in D : \E i \in DOMAIN complete : complete[i] = c
  BY <1>1, SetToSeqLists
<1>3. /\ m \in Nat /\ DOMAIN known = 1..m /\ n \in Nat /\ DOMAIN complete = 1..n
  BY <1>2
<1> HIDE DEF known, complete, m, n
<1>4. rs \in Seq(Lines) /\ Len(rs) = m
  BY <1>2, <1>3 DEF Lines, Line
<1>5. ds \in Seq(Lines) /\ Len(ds) = n
  BY <1>2, <1>3 DEF Lines, Line
<1>6. t = rs \o ds
  BY DEF Compacted, known, complete
<1>7. /\ t \in Seq(Lines) /\ Len(t) = m + n
      /\ \A i \in 1..m : t[i] = Line("received", known[i])
      /\ \A i \in 1..n : t[m + i] = Line("result", complete[i])
  BY <1>3, <1>4, <1>5, <1>6
<1> HIDE DEF t, rs, ds
<1>8. ASSUME NEW c \in Commands
      PROVE  Recovered(t, c) = es[c]
  <2>1. \A k \in 1..Len(t) : /\ k \in 1..m => t[k] = Line("received", known[k])
                            /\ k \notin 1..m => /\ k - m \in 1..n /\ k = m + (k - m)
                                               /\ t[k] = Line("result", complete[k - m])
    BY <1>3, <1>7
  <2>2. CASE es[c] = "none"
    <3>1. \A k \in 1..m : known[k] \in K
      BY <1>2, <1>3
    <3>2. ASSUME NEW k \in 1..Len(t)
          PROVE  t[k] # Line("received", c)
      <4>1. CASE k \in 1..m
        <5>1. t[k] = Line("received", known[k]) /\ known[k] # c
          BY <1>7, <2>2, <3>1, <4>1
        <5> QED
          BY <5>1, LinesDiffer
      <4>2. CASE k \notin 1..m
        <5>1. t[k] = Line("result", complete[k - m])
          BY <2>1, <4>2
        <5> QED
          BY <5>1, LinesDiffer
      <4> QED
        BY <4>1, <4>2
    <3> QED
      BY <1>7, <2>2, <3>2, RecoveredIs DEF Latest
  <2>3. CASE es[c] # "none"
    <3>1. PICK i \in 1..m : known[i] = c
      BY <1>2, <1>3, <2>3
    <3>2. \A j \in 1..m : j # i => known[j] # c
      BY <1>2, <1>3, <3>1 DEF IsInjective
    <3>3. i \in 1..Len(t) /\ t[i] = Line("received", c)
      BY <1>3, <1>7, <3>1
    <3>4. ASSUME NEW j \in 1..Len(t), j > i
          PROVE  t[j] # Line("received", c) /\ t[j] # Line("acknowledged", c)
      <4>1. CASE j \in 1..m
        <5>1. t[j] = Line("received", known[j]) /\ known[j] # c
          BY <1>7, <3>2, <3>4, <4>1
        <5> QED
          BY <5>1, LinesDiffer
      <4>2. CASE j \notin 1..m
        <5>1. t[j] = Line("result", complete[j - m])
          BY <2>1, <4>2
        <5> QED
          BY <5>1, LinesDiffer
      <4> QED
        BY <4>1, <4>2
    <3>5. Latest(t, c, i)
      BY <3>3, <3>4 DEF Latest
    <3>6. CASE es[c] = "complete"
      <4>1. PICK j \in 1..n : complete[j] = c
        BY <1>2, <1>3, <3>6
      <4>2. m + j \in 1..Len(t) /\ m + j > i /\ t[m + j] = Line("result", c)
        BY <1>3, <1>7, <4>1
      <4> QED
        BY <1>7, <3>5, <3>6, <4>2, RecoveredIs DEF HasResult
    <3>7. CASE es[c] # "complete"
      <4>1. \A k \in 1..n : complete[k] # c
        BY <1>2, <1>3, <3>7
      <4>2. ASSUME NEW k \in 1..Len(t)
            PROVE  t[k] # Line("result", c)
        <5>1. CASE k \in 1..m
          <6>1. t[k] = Line("received", known[k])
            BY <1>7, <5>1
          <6> QED
            BY <6>1, LinesDiffer
        <5>2. CASE k \notin 1..m
          <6>1. t[k] = Line("result", complete[k - m]) /\ complete[k - m] # c
            BY <2>1, <4>1, <5>2
          <6> QED
            BY <6>1, LinesDiffer
        <5> QED
          BY <5>1, <5>2
      <4>3. es[c] = "pending"
        BY <2>3, <3>7 DEF Entry
      <4> QED
        BY <1>7, <3>3, <3>5, <4>2, <4>3, RecoveredIs DEF HasResult
    <3> QED
      BY <3>6, <3>7
  <2> QED
    BY <2>2, <2>3
<1> QED
  BY <1>7, <1>8 DEF t

-----------------------------------------------------------------------------
(* The invariant, for crashes that cut no append short.                    *)

\* What is on its way on the connection.
SocketOK(c) ==
    /\ ~connected => c \notin wire /\ c \notin attached /\ reply[c] = "none"
    /\ c \in wire => client[c] \in {"waiting", "gaveUp"} /\ reply[c] = "none" /\ c \notin attached
    /\ c \in attached => handler[c] # "none" /\ reply[c] = "none"
    /\ c \in acks => client[c] = "answered"
    /\ outcome[c] # "none" => client[c] = "answered"
    /\ client[c] = "idle" => /\ c \notin wire /\ reply[c] = "none" /\ handler[c] = "none"
                             /\ Recovered(disk, c) = "none" /\ dispatches[c] = 0

\* What the journal knows of what has been done.
WorkOK(c) ==
    /\ handler[c] # "none" => up
    /\ handler[c] = "admitted" => dispatches[c] = 0
    /\ handler[c] = "working" => dispatches[c] = 1
    /\ dispatches[c] \in {0, 1}
    /\ Recovered(disk, c) = "complete" => dispatches[c] = 1
    /\ Recovered(disk, c) = "none" /\ (dispatches[c] # 0 \/ handler[c] # "none") =>
         client[c] = "answered"

\* What the client has been told, or is being told.
ToldOK(c) ==
    /\ reply[c] = "result" \/ outcome[c] = "result" => dispatches[c] = 1
    /\ reply[c] = "refused" \/ outcome[c] = "refused" => dispatches[c] = 0 /\ handler[c] = "none"

\* Nothing is uncertain before something is lost.
LossOK(c) ==
    crashes + drops = 0 =>
        /\ handler[c] # "none" => c \in attached
        /\ Recovered(disk, c) = "pending" => handler[c] # "none"
        /\ reply[c] # "uncertain" /\ outcome[c] # "uncertain"

CommandOK(c) == SocketOK(c) /\ WorkOK(c) /\ ToldOK(c) /\ LossOK(c)

IInv ==
    /\ TypeOK /\ MemoryOnDisk /\ ~torn /\ (connected => up)
    /\ \A c \in Commands : CommandOK(c)

-----------------------------------------------------------------------------
\* What load() finds is an entry.
LEMMA RecoveredType ==
    ASSUME NEW s, NEW c
    PROVE  Recovered(s, c) \in Entry
BY DEF Recovered, Entry

\* A file stays a file, whether the record starts a line or joins one.
LEMMA AppendedType ==
    ASSUME TypeOK, NEW line \in Lines
    PROVE  Appended(line) \in Seq(Lines) /\ Appended(line) # <<>>
<1>1. Garbage \in Lines
  BY DEF Garbage, Lines, Line
<1>2. CASE torn
  <2>1. Len(disk) \in 1..Len(disk)
    BY <1>2 DEF TypeOK
  <2>2. /\ [disk EXCEPT ![Len(disk)] = Garbage] \in Seq(Lines)
        /\ Len([disk EXCEPT ![Len(disk)] = Garbage]) = Len(disk)
    BY <1>1, <2>1, ExceptSeq DEF TypeOK
  <2> QED
    BY <1>2, <2>1, <2>2 DEF Appended
<1>3. CASE ~torn
  <2>1. Append(disk, line) \in Seq(Lines) /\ Len(Append(disk, line)) = Len(disk) + 1
    BY DEF TypeOK
  <2>2. Len(disk) \in Nat
    BY DEF TypeOK
  <2>3. Append(disk, line) # <<>>
    BY <2>1, <2>2
  <2> QED
    BY <1>3, <2>1, <2>3 DEF Appended
<1> QED
  BY <1>2, <1>3

\* The file after append(), and after compact().
LEMMA JournalTypes ==
    ASSUME TypeOK, NEW line \in Lines, NEW es \in [Commands -> Entry],
           UNCHANGED journal \/ \E b \in BOOLEAN : Journal(line, es, b)
    PROVE  /\ disk' \in Seq(Lines) /\ torn' \in BOOLEAN /\ (torn' => disk' # <<>>)
           /\ count' \in Nat /\ entries' \in [Commands -> Entry]
<1>1. Appended(line) \in Seq(Lines)
  BY AppendedType
<1>2. Compacted(es) \in Seq(Lines) /\ Len(Compacted(es)) \in Nat
  BY RecoveredCompact
<1>3. CASE UNCHANGED journal
  BY <1>3 DEF journal, TypeOK
<1>4. ASSUME NEW b \in BOOLEAN, Journal(line, es, b)
      PROVE  /\ disk' \in Seq(Lines) /\ torn' = FALSE
             /\ count' \in Nat /\ entries' \in [Commands -> Entry]
  BY <1>1, <1>2, <1>4 DEF Journal, TypeOK
<1> QED
  BY <1>3, <1>4

\* A record and the entries it leads to agree, whether or not compact() follows.
LEMMA JournalAgrees ==
    ASSUME TypeOK, MemoryOnDisk, up, ~torn, NEW c \in Commands,
           NEW kind \in {"received", "result", "acknowledged"}, NEW v,
           \/ kind = "received" /\ v = "pending"
           \/ kind = "result" /\ v = "complete" /\ entries[c] # "none"
           \/ kind = "acknowledged" /\ v = "none",
           \E b \in BOOLEAN : Journal(Line(kind, c), [entries EXCEPT ![c] = v], b)
    PROVE  \A d \in Commands : /\ Recovered(disk', d) = IF d = c THEN v ELSE Recovered(disk, d)
                               /\ entries'[d] = Recovered(disk', d)
<1> DEFINE es == [entries EXCEPT ![c] = v]
<1>1. es \in [Commands -> Entry] /\ Line(kind, c) \in Lines /\ disk \in Seq(Lines)
  BY DEF TypeOK, Entry, Lines, Line
<1>2. \A d \in Commands : es[d] = IF d = c THEN v ELSE Recovered(disk, d)
  BY DEF TypeOK, MemoryOnDisk
<1>3. ASSUME disk' = Append(disk, Line(kind, c)), NEW d \in Commands
      PROVE  Recovered(disk', d) = IF d = c THEN v ELSE Recovered(disk, d)
  <2>1. CASE d = c
    BY <1>1, <1>3, <2>1, RecoveredAppend DEF MemoryOnDisk
  <2>2. CASE d # c
    <3>1. Line(kind, c) \notin {Line("received", d), Line("result", d), Line("acknowledged", d)}
      BY <2>2 DEF Line
    <3> QED
      BY <1>1, <1>3, <2>2, <3>1, RecoveredAppend
  <2> QED
    BY <2>1, <2>2
<1>4. CASE Journal(Line(kind, c), es, TRUE)
  BY <1>1, <1>2, <1>4, RecoveredCompact DEF Journal
<1>5. CASE Journal(Line(kind, c), es, FALSE)
  BY <1>2, <1>3, <1>5 DEF Journal, Appended
<1> QED
  BY <1>4, <1>5

\* Every step keeps the types.
LEMMA TypeStep == TypeOK /\ [Next]_vars => TypeOK'
<1> SUFFICES ASSUME TypeOK, [Next]_vars
             PROVE  TypeOK'
  OBVIOUS
<1> USE JournalAssumption DEF journal, daemon, socket, caller, bounds
<1>1. ASSUME NEW c \in Commands, Send(c)
      PROVE  TypeOK'
  BY <1>1 DEF Send, TypeOK
<1>2. ASSUME NEW c \in Commands, Deliver(c)
      PROVE  TypeOK'
  BY ZenonT(60), <1>2 DEF Deliver, TypeOK
<1>3. ASSUME NEW c \in Commands, GiveUp(c)
      PROVE  TypeOK'
  BY <1>3 DEF GiveUp, TypeOK
<1>4. ASSUME NEW c \in Commands, Replay(c)
      PROVE  TypeOK'
  BY <1>4 DEF Replay, Received, Replies, Answer, TypeOK
<1>5. ASSUME NEW c \in Commands, Uncertain(c)
      PROVE  TypeOK'
  BY <1>5 DEF Uncertain, Received, Replies, Answer, TypeOK
<1>6. ASSUME NEW c \in Commands, Refuse(c)
      PROVE  TypeOK'
  BY <1>6 DEF Refuse, Received, Replies, Answer, TypeOK
<1>7. ASSUME NEW c \in Commands, Begin(c)
      PROVE  TypeOK'
  <2>1. Line("received", c) \in Lines /\ [entries EXCEPT ![c] = "pending"] \in [Commands -> Entry]
    BY DEF Lines, Line, Entry, TypeOK
  <2>2. UNCHANGED journal \/ \E b \in BOOLEAN :
           Journal(Line("received", c), [entries EXCEPT ![c] = "pending"], b)
    BY <1>7 DEF Begin
  <2>3. disk' \in Seq(Lines) /\ torn' \in BOOLEAN /\ (torn' => disk' # <<>>) /\ count' \in Nat
        /\ entries' \in [Commands -> Entry]
    BY <2>1, <2>2, JournalTypes
  <2> QED
    BY <1>7, <2>3 DEF Begin, CanBegin, Received, TypeOK
<1>8. ASSUME NEW c \in Commands, Dispatch(c)
      PROVE  TypeOK'
  BY <1>8 DEF Dispatch, TypeOK
<1>9. ASSUME NEW c \in Commands, Finish(c)
      PROVE  TypeOK'
  <2>1. Line("result", c) \in Lines /\ [entries EXCEPT ![c] = "complete"] \in [Commands -> Entry]
    BY DEF Lines, Line, Entry, TypeOK
  <2>2. UNCHANGED journal \/ \E b \in BOOLEAN :
           Journal(Line("result", c), [entries EXCEPT ![c] = "complete"], b)
    <3>1. CASE entries[c] # "none"
      <4>1. Journal(Line("result", c), [entries EXCEPT ![c] = "complete"], count + 1 >= CompactAfter)
        BY <1>9, <3>1 DEF Finish
      <4>2. (count + 1 >= CompactAfter) \in BOOLEAN
        OBVIOUS
      <4> QED
        BY <4>1, <4>2, Zenon
    <3>2. CASE entries[c] = "none"
      BY <1>9, <3>2 DEF Finish
    <3> QED
      BY <3>1, <3>2
  <2>3. disk' \in Seq(Lines) /\ torn' \in BOOLEAN /\ (torn' => disk' # <<>>) /\ count' \in Nat
        /\ entries' \in [Commands -> Entry]
    BY <2>1, <2>2, JournalTypes
  <2> QED
    BY <1>9, <2>3 DEF Finish, Answer, TypeOK
<1>10. ASSUME NEW c \in Commands, Acknowledge(c)
      PROVE  TypeOK'
  <2>1. Line("acknowledged", c) \in Lines /\ [entries EXCEPT ![c] = "none"] \in [Commands -> Entry]
    BY DEF Lines, Line, Entry, TypeOK
  <2>2. UNCHANGED journal \/ \E b \in BOOLEAN :
           Journal(Line("acknowledged", c), [entries EXCEPT ![c] = "none"], b)
    BY <1>10 DEF Acknowledge
  <2>3. disk' \in Seq(Lines) /\ torn' \in BOOLEAN /\ (torn' => disk' # <<>>) /\ count' \in Nat
        /\ entries' \in [Commands -> Entry]
    BY <2>1, <2>2, JournalTypes
  <2> QED
    BY <1>10, <2>3 DEF Acknowledge, TypeOK
<1>11. ASSUME Drop
      PROVE  TypeOK'
  <2>1. /\ disk' \in Seq(Lines) /\ torn' \in BOOLEAN /\ (torn' => disk' # <<>>)
        /\ entries' \in [Commands -> Entry] /\ count' \in Nat
    BY <1>11 DEF Drop, TypeOK
  <2>2. /\ up' \in BOOLEAN /\ draining' \in BOOLEAN /\ connected' \in BOOLEAN
        /\ handler' \in [Commands -> {"none", "admitted", "working"}]
        /\ attached' \subseteq Commands /\ wire' \subseteq Commands /\ acks' \subseteq Commands
    BY <1>11 DEF Drop, Disconnected, TypeOK
  <2>3. /\ reply' \in [Commands -> Answer \cup {"none"}]
        /\ client' \in [Commands -> {"idle", "waiting", "answered", "gaveUp"}]
        /\ outcome' \in [Commands -> Answer \cup {"none"}]
    BY <1>11 DEF Drop, Disconnected, TypeOK
  <2>4. dispatches' \in [Commands -> Nat]
    BY <1>11 DEF Drop, TypeOK
  <2>5. crashes' \in Nat /\ drops' \in Nat
    BY <1>11 DEF Drop, TypeOK
  <2> QED
    BY <2>1, <2>2, <2>3, <2>4, <2>5 DEF TypeOK
<1>12. ASSUME Reconnect
      PROVE  TypeOK'
  BY <1>12 DEF Reconnect, TypeOK
<1>13. ASSUME Drain
      PROVE  TypeOK'
  BY <1>13 DEF Drain, TypeOK
<1>14. ASSUME Stop
      PROVE  TypeOK'
  BY <1>14 DEF Stop, Dies, Disconnected, Entry, TypeOK
<1>15. ASSUME Crash
      PROVE  TypeOK'
  <2>1. \A l \in Lines : Appended(l) \in Seq(Lines) /\ Appended(l) # <<>>
    BY AppendedType
  <2>2. Appending \subseteq Lines /\ Garbage \in Lines
    BY DEF Appending, Lines, Garbage, Line, TypeOK
  <2>3. disk' \in Seq(Lines) /\ torn' \in BOOLEAN /\ (torn' => disk' # <<>>)
    BY <1>15, <2>1, <2>2 DEF Crash, TypeOK
  <2>4. /\ entries' \in [Commands -> Entry] /\ count' \in Nat
        /\ reply' \in [Commands -> Answer \cup {"none"}]
        /\ handler' \in [Commands -> {"none", "admitted", "working"}]
    BY <1>15 DEF Crash, Dies, Disconnected, TypeOK, Entry
  <2>5. /\ up' \in BOOLEAN /\ draining' \in BOOLEAN /\ connected' \in BOOLEAN
        /\ attached' \subseteq Commands /\ wire' \subseteq Commands /\ acks' \subseteq Commands
    BY <1>15 DEF Crash, Dies, Disconnected, TypeOK
  <2>6. /\ client' \in [Commands -> {"idle", "waiting", "answered", "gaveUp"}]
        /\ outcome' \in [Commands -> Answer \cup {"none"}]
    BY <1>15 DEF Crash, Dies, TypeOK
  <2>7. dispatches' \in [Commands -> Nat]
    BY <1>15 DEF Crash, Dies, TypeOK
  <2>8. crashes' \in Nat /\ drops' \in Nat
    BY <1>15 DEF Crash, Dies, TypeOK
  <2> QED
    BY <2>3, <2>4, <2>5, <2>6, <2>7, <2>8 DEF TypeOK
<1>16. ASSUME Start
      PROVE  TypeOK'
  <2>1. count' \in Nat
    <3>1. IsFiniteSet({i \in DOMAIN disk : disk[i] # Garbage})
      BY FS_Interval, FS_Subset DEF TypeOK
    <3> QED
      BY <1>16, <3>1, FS_CardinalityType DEF Start
  <2> QED
    BY <1>16, <2>1, RecoveredType DEF Start, TypeOK
<1>17. CASE UNCHANGED vars
  BY <1>17 DEF vars, TypeOK
<1> QED
  BY <1>1, <1>2, <1>3, <1>4, <1>5, <1>6, <1>7, <1>8, <1>9, <1>10, <1>11, <1>12,
       <1>13, <1>14, <1>15, <1>16, <1>17 DEF Next

\* Every step keeps the invariant.
LEMMA InvariantStep ==
    ASSUME Tears = {}, IInv, [Next]_vars
    PROVE  MemoryOnDisk' /\ ~torn' /\ (connected' => up') /\ \A d \in Commands : CommandOK(d)'
<1> DEFINE Kept == MemoryOnDisk' /\ ~torn' /\ (connected' => up') /\ \A d \in Commands : CommandOK(d)'
<1> SUFFICES Kept
  OBVIOUS
<1> USE JournalAssumption DEF IInv, TypeOK, MemoryOnDisk, CommandOK, SocketOK, WorkOK, ToldOK,
        LossOK, journal, daemon, socket, caller, bounds
<1>1. ASSUME NEW c \in Commands, Send(c)
      PROVE  Kept
  BY <1>1 DEF Send
<1>2. ASSUME NEW c \in Commands, Deliver(c)
      PROVE  Kept
  BY <1>2 DEF Deliver
<1>3. ASSUME NEW c \in Commands, GiveUp(c)
      PROVE  Kept
  BY <1>3 DEF GiveUp
<1>4. ASSUME NEW c \in Commands, Replay(c)
      PROVE  Kept
  BY <1>4 DEF Replay, Received, Replies
<1>5. ASSUME NEW c \in Commands, Uncertain(c)
      PROVE  Kept
  BY <1>5 DEF Uncertain, Received, Replies
<1>6. ASSUME NEW c \in Commands, Refuse(c)
      PROVE  Kept
  BY <1>6 DEF Refuse, Received, Replies
<1>7. ASSUME NEW c \in Commands, Begin(c)
      PROVE  Kept
  <2>1. up /\ Journal(Line("received", c), [entries EXCEPT ![c] = "pending"], FALSE)
    BY <1>7 DEF Begin, CanBegin, Received
  <2>2. \A d \in Commands : /\ Recovered(disk', d) = IF d = c THEN "pending" ELSE Recovered(disk, d)
                            /\ entries'[d] = Recovered(disk', d)
    BY <2>1, JournalAgrees
  <2>3. torn' = FALSE
    BY <2>1 DEF Journal
  <2> QED
    BY <1>7, <2>2, <2>3 DEF Begin, CanBegin, Received
<1>8. ASSUME NEW c \in Commands, Dispatch(c)
      PROVE  Kept
  BY <1>8 DEF Dispatch
<1>9. ASSUME NEW c \in Commands, Finish(c)
      PROVE  Kept
  <2>1. CASE entries[c] # "none"
    <3>1. \E b \in BOOLEAN : Journal(Line("result", c), [entries EXCEPT ![c] = "complete"], b)
      BY <1>9, <2>1 DEF Finish
    <3>2. up
      BY <1>9 DEF Finish
    <3>3. \A d \in Commands : /\ Recovered(disk', d) = IF d = c THEN "complete" ELSE Recovered(disk, d)
                              /\ entries'[d] = Recovered(disk', d)
      BY ZenonT(60), <2>1, <3>1, <3>2, JournalAgrees
    <3>4. torn' = FALSE
      BY <3>1 DEF Journal
    <3> QED
      BY <1>9, <2>1, <3>2, <3>3, <3>4 DEF Finish
  <2>2. CASE entries[c] = "none"
    BY <1>9, <2>2 DEF Finish
  <2> QED
    BY <2>1, <2>2
<1>10. ASSUME NEW c \in Commands, Acknowledge(c)
      PROVE  Kept
  <2>1. CASE entries[c] # "none"
    <3>1. \E b \in BOOLEAN : Journal(Line("acknowledged", c), [entries EXCEPT ![c] = "none"], b)
      BY <1>10, <2>1 DEF Acknowledge
    <3>2. up
      BY <1>10 DEF Acknowledge
    <3>3. \A d \in Commands : /\ Recovered(disk', d) = IF d = c THEN "none" ELSE Recovered(disk, d)
                              /\ entries'[d] = Recovered(disk', d)
      BY ZenonT(60), <2>1, <3>1, <3>2, JournalAgrees
    <3>4. torn' = FALSE
      BY <3>1 DEF Journal
    <3> QED
      BY <1>10, <2>1, <3>2, <3>3, <3>4 DEF Acknowledge
  <2>2. CASE entries[c] = "none"
    BY <1>10, <2>2 DEF Acknowledge
  <2> QED
    BY <2>1, <2>2
<1>11. ASSUME Drop
      PROVE  Kept
  BY <1>11 DEF Drop, Disconnected
<1>12. ASSUME Reconnect
      PROVE  Kept
  BY <1>12 DEF Reconnect
<1>13. ASSUME Drain
      PROVE  Kept
  BY <1>13 DEF Drain
<1>14. ASSUME Stop
      PROVE  Kept
  BY <1>14 DEF Stop, Dies, Disconnected, Entry
<1>15. ASSUME Crash
      PROVE  Kept
  <2>1. torn' = FALSE /\ (disk' = disk \/ \E l \in Appending : disk' = Append(disk, l))
    BY <1>15 DEF Crash, Appended
  <2>2. CASE disk' = disk
    BY <1>15, <2>1, <2>2 DEF Crash, Dies, Disconnected
  <2>3. ASSUME NEW l \in Appending, disk' = Append(disk, l)
        PROVE  Kept
    <3>1. PICK c \in Commands :
             \/ l = Line("received", c) /\ CanBegin(c)
             \/ l = Line("result", c) /\ handler[c] = "working" /\ entries[c] # "none"
             \/ l = Line("acknowledged", c) /\ c \in acks
      BY DEF Appending
    <3>2. l \in Lines
      BY <3>1 DEF Lines, Line
    <3>3. \A d \in Commands : d # c => Recovered(disk', d) = Recovered(disk, d)
      <4> SUFFICES ASSUME NEW d \in Commands, d # c
                   PROVE  Recovered(disk', d) = Recovered(disk, d)
        OBVIOUS
      <4>1. l \notin {Line("received", d), Line("result", d), Line("acknowledged", d)}
        BY <3>1 DEF Line
      <4> QED
        BY <2>3, <3>2, <4>1, RecoveredAppend
    <3>4. \/ Recovered(disk', c) = "pending" /\ CanBegin(c)
          \/ Recovered(disk', c) = "complete" /\ handler[c] = "working"
          \/ Recovered(disk', c) = "none" /\ c \in acks
      BY <1>15, <2>3, <3>1, <3>2, RecoveredAppend DEF Crash
    <3> QED
      BY <1>15, <2>1, <3>3, <3>4 DEF Crash, Dies, Disconnected, CanBegin
  <2> QED
    BY <2>1, <2>2, <2>3
<1>16. ASSUME Start
      PROVE  Kept
  BY <1>16 DEF Start
<1>17. CASE UNCHANGED vars
  BY <1>17 DEF vars
<1> QED
  BY <1>1, <1>2, <1>3, <1>4, <1>5, <1>6, <1>7, <1>8, <1>9, <1>10, <1>11, <1>12,
       <1>13, <1>14, <1>15, <1>16, <1>17 DEF IInv, Next

\* The first state has the types.
LEMMA InitTypes == Init => TypeOK
<1> SUFFICES ASSUME Init
             PROVE  TypeOK
  OBVIOUS
<1>1. disk \in Seq(Lines)
  BY DEF Init
<1>2. torn \in BOOLEAN /\ (torn => disk # <<>>)
  BY DEF Init
<1> QED
  BY <1>1, <1>2 DEF Init, TypeOK, Entry

\* The variables have their types in every state.
THEOREM JournalTypeOK == Spec => []TypeOK
<1>1. Init => TypeOK
  BY InitTypes
<1> QED
  BY <1>1, TypeStep, PTL DEF Spec

\* The invariant holds in every state, if no crash cuts an append short.
LEMMA JournalInvariant ==
    ASSUME Tears = {}
    PROVE  Spec => []IInv
<1>1. Init => IInv
  <2> SUFFICES ASSUME Init
               PROVE  IInv
    OBVIOUS
  <2>1. TypeOK
    BY InitTypes
  <2>2. \A c \in Commands : Recovered(disk, c) = "none"
    BY DEF Init, Recovered
  <2> QED
    BY <2>1, <2>2 DEF Init, IInv, MemoryOnDisk, CommandOK, SocketOK, WorkOK, ToldOK, LossOK
<1>2. IInv /\ [Next]_vars => IInv'
  BY TypeStep, InvariantStep DEF IInv
<1> QED
  BY <1>1, <1>2, PTL DEF Spec

\* Unless a crash cuts an append short, no retry, restart or compaction makes
\* the supervisor dispatch a command twice.
THEOREM NoSecondDispatch ==
    ASSUME Tears = {}
    PROVE  Spec => []DispatchedOnce
<1>1. IInv => DispatchedOnce
  BY DEF IInv, CommandOK, WorkOK, DispatchedOnce
<1> QED
  BY <1>1, JournalInvariant, PTL

\* Who is told a result had the command run; who is refused did not.
THEOREM AnswersHold ==
    ASSUME Tears = {}
    PROVE  Spec => []AnswersAreTrue
<1>1. IInv => AnswersAreTrue
  BY DEF IInv, CommandOK, ToldOK, AnswersAreTrue
<1> QED
  BY <1>1, JournalInvariant, PTL

\* What the supervisor knows is what the next one would load.
THEOREM DiskKnowsAll ==
    ASSUME Tears = {}
    PROVE  Spec => []MemoryOnDisk
<1>1. IInv => MemoryOnDisk
  BY DEF IInv
<1> QED
  BY <1>1, JournalInvariant, PTL

\* An update restart alone makes no command uncertain.
THEOREM RestartsLoseNothing ==
    ASSUME Tears = {}
    PROVE  Spec => []UncertainNeedsALoss
<1>1. IInv => UncertainNeedsALoss
  BY DEF IInv, CommandOK, LossOK, TypeOK, UncertainNeedsALoss
<1> QED
  BY <1>1, JournalInvariant, PTL
=============================================================================
