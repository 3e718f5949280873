---------------------------- MODULE Services_proof ----------------------------
(***************************************************************************)
(* What holds, for any constants, of the services that keep to themselves: *)
(* the log stream, the live channels, the archive of the Ethereal venue    *)
(* and its market data client, and the portfolio circuit breaker.  They    *)
(* share no variable; each part below is about one of them.                *)
(***************************************************************************)
EXTENDS EtherealFeed, EtherealArchive, LogStream, Channels, PortfolioRisk,
        FiniteSetTheorems, WellFoundedInduction, TLAPS

-----------------------------------------------------------------------------
(* LogStream.  The browser has received a prefix of the lines, in order    *)
(* though with repetitions; the generator knows how far it has come.       *)

StreamTypes ==
  /\ log \in [lines : Nat, half : BOOLEAN, exists : BOOLEAN]
  /\ final \in BOOLEAN /\ marked \in Nat /\ ended \in BOOLEAN
  /\ stream \in [pc : {"closed", "status", "file", "send"}, seen : BOOLEAN, num : Nat, out : Seq(Nat)]
  /\ got \in Seq(Nat)

\* The lines below n are among the first i events of g.
Received(g, n, i) == \A m \in 0 .. n - 1 : \E j \in 1 .. i : g[j] = m

\* The first line of the stream that is still to be sent.
Sending == stream.num - Len(stream.out)

\* The file has what the marked job had written, and each line received.
FileInv ==
  /\ log.exists \/ InFile = 0
  /\ final => marked <= InFile

\* The events are lines of the file, and none came before an earlier line.
GotInv == \A i \in 1 .. Len(got) : got[i] < InFile /\ Received(got, got[i] + 1, i)

\* What is to be sent are the lines up to stream.num, in order.
OutInv ==
  /\ stream.num <= InFile /\ Sending \in Nat
  /\ \A i \in 1 .. Len(stream.out) : stream.out[i] = Sending + i - 1
  /\ stream.pc # "send" => stream.out = << >>

\* A connection has sent, or begins at, what the browser has.
PositionInv == stream.pc # "closed" => Received(got, Sending, Len(got))

\* A final status was read before the file, and so the file has all of the job.
SeenInv ==
  /\ stream.pc \in {"file", "send"} /\ stream.seen => final
  /\ stream.pc = "send" /\ stream.seen => marked <= stream.num

EndInv == ended => final /\ Received(got, marked, Len(got))

StreamInv == StreamTypes /\ FileInv /\ GotInv /\ OutInv /\ PositionInv /\ SeenInv /\ EndInv

\* At the start nothing is written, read or received.
LEMMA StreamInitInv == StreamInit => StreamInv
  <1> SUFFICES ASSUME StreamInit PROVE StreamInv
    OBVIOUS
  <1>1. /\ log = [lines |-> 0, half |-> FALSE, exists |-> FALSE] /\ final = FALSE /\ marked = 0
        /\ stream = [pc |-> "closed", seen |-> FALSE, num |-> 0, out |-> << >>]
        /\ got = << >> /\ ended = FALSE
    BY DEF StreamInit
  <1>2. InFile = 0 /\ Sending = 0 /\ Len(got) = 0 /\ Len(stream.out) = 0
    BY <1>1 DEF InFile, Sending
  <1>3. StreamTypes
    <2>1. log \in [lines : Nat, half : BOOLEAN, exists : BOOLEAN] /\ final \in BOOLEAN /\ marked \in Nat /\ ended \in BOOLEAN
      BY <1>1
    <2>2. << >> \in Seq(Nat)
      OBVIOUS
    <2>3. stream \in [pc : {"closed", "status", "file", "send"}, seen : BOOLEAN, num : Nat, out : Seq(Nat)]
      BY <1>1, <2>2, Zenon
    <2>4. got \in Seq(Nat)
      BY <1>1, <2>2
    <2> QED BY <2>1, <2>3, <2>4 DEF StreamTypes
  <1> QED BY <1>1, <1>2, <1>3 DEF StreamInv, FileInv, GotInv, OutInv, PositionInv, SeenInv, EndInv

\* The file only grows.
LEMMA FileGrows ==
  ASSUME StreamTypes, WriteHalf \/ WriteLine
  PROVE  InFile \in Nat /\ InFile' \in Nat /\ InFile <= InFile' /\ log'.exists
  <1>1. log \in [lines : Nat, half : BOOLEAN, exists : BOOLEAN]
    BY DEF StreamTypes
  <1>2. CASE WriteHalf
    BY <1>1, <1>2 DEF WriteHalf, InFile
  <1>3. CASE WriteLine
    BY <1>1, <1>3 DEF WriteLine, InFile
  <1> QED BY <1>2, <1>3

\* The types are kept.
LEMMA StreamTypesStep == StreamInv /\ [StreamNext]_lvars => StreamTypes'
  <1> SUFFICES ASSUME StreamInv, [StreamNext]_lvars PROVE StreamTypes'
    OBVIOUS
  <1> USE DEF StreamTypes
  <1>t. StreamTypes /\ InFile \in Nat
    BY DEF StreamInv, InFile
  <1>1. CASE WriteHalf
    BY <1>t, <1>1 DEF WriteHalf
  <1>2. CASE WriteLine
    BY <1>t, <1>2 DEF WriteLine
  <1>3. CASE Mark
    BY <1>t, <1>3 DEF Mark, InFile
  <1>4. CASE OpenStream
    <2>1. LastEventId \in Nat
      BY <1>t DEF LastEventId, Last
    <2> QED BY <1>t, <1>4, <2>1 DEF OpenStream
  <1>5. CASE ReadStatus
    BY <1>t, <1>5 DEF ReadStatus
  <1>6. CASE ReadFile
    <2> DEFINE N == IF InFile > stream.num THEN InFile - stream.num ELSE 0
               o == [i \in 1 .. N |-> stream.num + i - 1]
    <2>1. stream.num \in Nat /\ N \in Nat
      BY <1>t
    <2>2. o \in Seq(Nat)
      BY <2>1
    <2>3. (IF log.exists THEN InFile ELSE stream.num) \in Nat
      BY <1>t, <2>1
    <2>4. stream' = [stream EXCEPT !.pc = "send", !.out = o, !.num = IF log.exists THEN InFile ELSE @]
      BY <1>6 DEF ReadFile
    <2>5. stream' \in [pc : {"closed", "status", "file", "send"}, seen : BOOLEAN, num : Nat, out : Seq(Nat)]
      <3> HIDE DEF o
      <3> QED BY <1>t, <2>2, <2>3, <2>4
    <2> QED BY <1>t, <1>6, <2>5 DEF ReadFile
  <1>7. CASE Send
    <2>1. stream.out \in Seq(Nat) /\ stream.out # << >> /\ got \in Seq(Nat)
      BY <1>t, <1>7 DEF Send
    <2>2. Head(stream.out) \in Nat /\ Tail(stream.out) \in Seq(Nat)
      BY <2>1
    <2>3. got' \in Seq(Nat)
      BY <1>7, <2>1, <2>2 DEF Send
    <2>4. stream' \in [pc : {"closed", "status", "file", "send"}, seen : BOOLEAN, num : Nat, out : Seq(Nat)]
      BY <1>t, <1>7, <2>2 DEF Send
    <2> QED BY <1>t, <1>7, <2>3, <2>4 DEF Send
  <1>8. CASE Complete
    BY <1>t, <1>8 DEF Complete
  <1>9. CASE Pause
    BY <1>t, <1>9 DEF Pause
  <1>10. CASE Drop
    <2>1. << >> \in Seq(Nat)
      OBVIOUS
    <2>2. stream' \in [pc : {"closed", "status", "file", "send"}, seen : BOOLEAN, num : Nat, out : Seq(Nat)]
      BY <1>t, <1>10, <2>1 DEF Drop
    <2> QED BY <1>t, <1>10, <2>2 DEF Drop
  <1>11. CASE UNCHANGED lvars
    BY <1>t, <1>11 DEF lvars
  <1> QED BY <1>1, <1>2, <1>3, <1>4, <1>5, <1>6, <1>7, <1>8, <1>9, <1>10, <1>11 DEF StreamNext, Tailing

\* What has been received stays received.
LEMMA ReceivedGrows ==
  ASSUME NEW g \in Seq(Nat), NEW k \in Nat
  PROVE  /\ \A n \in Nat, i \in 0 .. Len(g) : Received(g, n, i) => Received(Append(g, k), n, i)
         /\ \A n \in Nat : Received(g, n, Len(g)) => Received(Append(g, k), n, Len(g) + 1)
         /\ Received(g, k, Len(g)) => Received(Append(g, k), k + 1, Len(g) + 1)
  <1> DEFINE h == Append(g, k)
  <1>1. Len(g) \in Nat /\ h[Len(g) + 1] = k /\ \A i \in 1 .. Len(g) : h[i] = g[i]
    OBVIOUS
  <1> HIDE DEF h
  <1>2. ASSUME NEW n \in Nat, NEW i \in 0 .. Len(g), Received(g, n, i) PROVE Received(h, n, i)
    <2> SUFFICES ASSUME NEW m \in 0 .. n - 1 PROVE \E j \in 1 .. i : h[j] = m
      BY DEF Received
    <2>1. PICK j \in 1 .. i : g[j] = m
      BY <1>2 DEF Received
    <2> QED BY <1>1, <2>1
  <1>3. ASSUME NEW n \in Nat, Received(g, n, Len(g)) PROVE Received(h, n, Len(g) + 1)
    <2>1. Received(h, n, Len(g))
      BY <1>1, <1>2, <1>3
    <2> QED BY <1>1, <2>1 DEF Received
  <1>4. ASSUME Received(g, k, Len(g)) PROVE Received(h, k + 1, Len(g) + 1)
    <2> SUFFICES ASSUME NEW m \in 0 .. k PROVE \E j \in 1 .. Len(g) + 1 : h[j] = m
      BY DEF Received
    <2>1. Received(h, k, Len(g) + 1)
      BY <1>3, <1>4
    <2>2. CASE m = k
      BY <1>1, <2>2
    <2>3. CASE m # k
      BY <2>1, <2>3 DEF Received
    <2> QED BY <2>2, <2>3
  <1> QED BY <1>2, <1>3, <1>4 DEF h

\* Every step keeps what the browser has a prefix of the file.
LEMMA StreamStep == StreamInv /\ [StreamNext]_lvars => StreamInv'
  <1> SUFFICES ASSUME StreamInv, [StreamNext]_lvars PROVE StreamInv'
    OBVIOUS
  <1>t. StreamTypes /\ StreamTypes'
    BY StreamTypesStep DEF StreamInv
  <1>0. InFile \in Nat /\ stream.num \in Nat /\ got \in Seq(Nat) /\ marked \in Nat
    BY <1>t DEF StreamTypes, InFile
  <1> USE <1>t DEF StreamInv
  <1>1. CASE WriteHalf \/ WriteLine
    <2>1. UNCHANGED <<final, marked, stream, got, ended>>
      BY <1>1 DEF WriteHalf, WriteLine
    <2>2. InFile' \in Nat /\ InFile <= InFile' /\ log'.exists
      BY <1>1, FileGrows
    <2>3. FileInv' /\ OutInv' /\ PositionInv' /\ SeenInv' /\ EndInv'
      BY <1>0, <2>1, <2>2 DEF FileInv, OutInv, PositionInv, SeenInv, EndInv, Received, Sending
    <2>4. GotInv'
      BY <1>0, <2>1, <2>2 DEF GotInv, Received
    <2> QED BY <2>3, <2>4
  <1>2. CASE Mark
    <2>1. UNCHANGED <<log, stream, got, ended>> /\ InFile' = InFile /\ ~ final /\ final' /\ marked' = InFile
      BY <1>2 DEF Mark, InFile
    <2>2. FileInv'
      BY <1>0, <2>1 DEF FileInv
    <2>3. GotInv'
      BY <2>1 DEF GotInv, Received
    <2>4. OutInv' /\ PositionInv'
      BY <2>1 DEF OutInv, PositionInv, Received, Sending
    <2> QED BY <2>1, <2>2, <2>3, <2>4 DEF SeenInv, EndInv
  <1>3. CASE OpenStream
    <2>1. UNCHANGED <<log, final, marked, got, ended>> /\ InFile' = InFile
      BY <1>3 DEF OpenStream, InFile
    <2>2. LastEventId \in Nat /\ LastEventId <= InFile /\ Received(got, LastEventId, Len(got))
      <3>1. CASE got = << >>
        BY <1>0, <3>1 DEF LastEventId, Received
      <3>2. CASE got # << >>
        <4>1. Len(got) \in 1 .. Len(got) /\ LastEventId = got[Len(got)] /\ got[Len(got)] \in Nat
          BY <1>0, <3>2 DEF LastEventId, Last
        <4>2. got[Len(got)] < InFile /\ Received(got, got[Len(got)] + 1, Len(got))
          BY <4>1 DEF GotInv
        <4>3. LastEventId <= InFile
          BY <1>0, <4>1, <4>2
        <4>4. Received(got, LastEventId, Len(got))
          <5>1. 0 .. LastEventId - 1 \subseteq 0 .. (got[Len(got)] + 1) - 1
            BY <4>1
          <5> QED BY <4>2, <5>1 DEF Received
        <4> QED BY <4>1, <4>3, <4>4
      <3> QED BY <3>1, <3>2
    <2>3. stream' = [pc |-> "status", seen |-> FALSE, num |-> LastEventId, out |-> << >>]
      BY <1>3 DEF OpenStream
    <2>4. Sending' = LastEventId /\ Len(stream'.out) = 0
      BY <2>2, <2>3 DEF Sending
    <2>5. FileInv' /\ GotInv' /\ EndInv'
      BY <2>1 DEF FileInv, GotInv, EndInv, Received
    <2>6. OutInv' /\ SeenInv'
      BY <2>1, <2>2, <2>3, <2>4 DEF OutInv, SeenInv
    <2>7. PositionInv'
      BY <2>1, <2>2, <2>4 DEF PositionInv, Received
    <2> QED BY <2>5, <2>6, <2>7
  <1>4. CASE ReadStatus \/ Pause
    <2>1. UNCHANGED <<log, final, marked, got, ended>> /\ InFile' = InFile
      BY <1>4 DEF ReadStatus, Pause, InFile
    <2>2. /\ stream.pc # "closed" /\ stream'.pc \in {"file", "status"}
          /\ stream'.out = stream.out /\ stream'.num = stream.num /\ stream.out = << >>
          /\ stream'.pc = "file" => stream'.seen = final
      BY <1>4 DEF ReadStatus, Pause, StreamTypes, OutInv
    <2>3. Sending' = Sending
      BY <2>2 DEF Sending
    <2>4. FileInv' /\ GotInv' /\ EndInv' /\ OutInv' /\ PositionInv'
      BY <2>1, <2>2, <2>3 DEF FileInv, GotInv, EndInv, OutInv, PositionInv, Received
    <2>5. SeenInv'
      BY <2>1, <2>2 DEF SeenInv
    <2> QED BY <2>4, <2>5
  <1>5. CASE ReadFile
    <2> DEFINE N == IF InFile > stream.num THEN InFile - stream.num ELSE 0
               o == [i \in 1 .. N |-> stream.num + i - 1]
    <2>1. /\ UNCHANGED <<log, final, marked, got, ended>> /\ InFile' = InFile
          /\ stream.pc = "file" /\ stream' = [stream EXCEPT !.pc = "send", !.out = o, !.num = IF log.exists THEN InFile ELSE @]
      BY <1>5 DEF ReadFile, InFile
    <2>2. N \in Nat /\ N = InFile - stream.num /\ stream.out = << >>
      BY <1>0, <2>1 DEF OutInv
    <2>3. Len(o) = N /\ \A i \in 1 .. N : o[i] = stream.num + i - 1
      BY <1>0, <2>2
    <2>4. (IF log.exists THEN InFile ELSE stream.num) = InFile
      BY <1>0, <2>2 DEF FileInv, OutInv
    <2> HIDE DEF o, N
    <2>5. stream'.pc = "send" /\ stream'.out = o /\ stream'.num = InFile /\ stream'.seen = stream.seen
      BY <2>1, <2>4 DEF StreamTypes
    <2>6. Sending' = stream.num /\ Sending = stream.num
      BY <1>0, <2>2, <2>3, <2>5 DEF Sending
    <2>7. FileInv' /\ GotInv' /\ EndInv'
      BY <2>1 DEF FileInv, GotInv, EndInv, Received
    <2>8. OutInv'
      BY <1>0, <2>1, <2>2, <2>3, <2>5, <2>6 DEF OutInv
    <2>9. PositionInv' /\ SeenInv'
      BY <1>0, <2>1, <2>5, <2>6 DEF PositionInv, SeenInv, FileInv, Received
    <2> QED BY <2>7, <2>8, <2>9
  <1>6. CASE Send
    <2> DEFINE k == Head(stream.out)
    <2>1. /\ UNCHANGED <<log, final, marked, ended>> /\ InFile' = InFile
          /\ stream.pc = "send" /\ stream.out # << >>
          /\ got' = Append(got, k) /\ stream' = [stream EXCEPT !.out = Tail(@)]
      BY <1>6 DEF Send, InFile
    <2>2. /\ stream.out \in Seq(Nat) /\ Len(stream.out) \in Nat \ {0} /\ k = stream.out[1] /\ k \in Nat
          /\ Len(Tail(stream.out)) = Len(stream.out) - 1
          /\ \A i \in 1 .. Len(stream.out) - 1 : Tail(stream.out)[i] = stream.out[i + 1]
      <3>1. stream.out \in Seq(Nat) /\ stream.out # << >>
        BY <2>1 DEF StreamTypes
      <3> QED BY <3>1
    <2>3. stream'.pc = "send" /\ stream'.num = stream.num /\ stream'.seen = stream.seen /\ stream'.out = Tail(stream.out)
      BY <2>1 DEF StreamTypes
    <2> HIDE DEF k
    <2>o. /\ Sending \in Nat /\ Sending = stream.num - Len(stream.out) /\ stream.num <= InFile
          /\ \A i \in 1 .. Len(stream.out) : stream.out[i] = Sending + i - 1
      BY DEF OutInv, Sending
    <2>4. k = Sending /\ k < InFile /\ Sending' = Sending + 1
      <3>1. k = Sending
        BY <2>2, <2>o
      <3>2. Sending' = stream.num - (Len(stream.out) - 1)
        BY <2>2, <2>3 DEF Sending
      <3> QED BY <1>0, <2>2, <2>o, <3>1, <3>2
    <2>5. OutInv'
      <3>1. \A i \in 1 .. Len(stream.out) - 1 : Tail(stream.out)[i] = Sending' + i - 1
        BY <2>2, <2>4, <2>o
      <3>2. stream'.num <= InFile' /\ Sending' \in Nat
        BY <1>0, <2>1, <2>3, <2>4, <2>o
      <3>3. Len(stream'.out) = Len(stream.out) - 1 /\ stream'.out = Tail(stream.out)
        BY <2>2, <2>3
      <3>4. \A i \in 1 .. Len(stream'.out) : stream'.out[i] = Sending' + i - 1
        BY <3>1, <3>3
      <3> QED BY <2>3, <3>2, <3>4 DEF OutInv
    <2>6. Len(got') = Len(got) + 1 /\ got'[Len(got')] = k /\ \A i \in 1 .. Len(got) : got'[i] = got[i]
      BY <1>0, <2>1, <2>2
    <2>7. Received(got', k + 1, Len(got'))
      <3>1. Received(got, k, Len(got))
        BY <2>1, <2>4 DEF PositionInv
      <3> QED BY <1>0, <2>1, <2>2, <2>6, <3>1, ReceivedGrows
    <2>8. GotInv'
      <3>1. ASSUME NEW i \in 1 .. Len(got) PROVE got'[i] < InFile' /\ Received(got', got'[i] + 1, i)
        <4>1. got[i] \in Nat /\ got[i] < InFile /\ Received(got, got[i] + 1, i) /\ i \in 0 .. Len(got) /\ got'[i] = got[i]
          BY <1>0, <2>6, <3>1 DEF GotInv
        <4>2. Received(got', got[i] + 1, i)
          BY <2>1, <2>2, <4>1, ReceivedGrows DEF Received
        <4> QED BY <2>1, <4>1, <4>2 DEF Received
      <3>2. got'[Len(got')] < InFile' /\ Received(got', got'[Len(got')] + 1, Len(got'))
        BY <2>1, <2>4, <2>6, <2>7
      <3> QED BY <1>0, <2>6, <3>1, <3>2 DEF GotInv
    <2>9. FileInv' /\ SeenInv'
      BY <2>1, <2>3 DEF FileInv, SeenInv
    <2>10. PositionInv'
      BY <2>4, <2>7 DEF PositionInv, Received
    <2>11. EndInv'
      BY <1>0, <2>1, <2>2, <2>6, ReceivedGrows DEF EndInv, Received
    <2> QED BY <2>5, <2>8, <2>9, <2>10, <2>11
  <1>7. CASE Complete
    <2>1. /\ UNCHANGED <<log, final, marked, got>> /\ InFile' = InFile /\ ended'
          /\ stream.pc = "send" /\ stream.out = << >> /\ stream.seen /\ stream' = [stream EXCEPT !.pc = "closed"]
      BY <1>7 DEF Complete, InFile
    <2>2. stream'.pc = "closed" /\ stream'.num = stream.num /\ stream'.out = << >> /\ Sending' = Sending
      BY <2>1 DEF StreamTypes, Sending
    <2>3. Sending = stream.num
      BY <1>0, <2>1 DEF Sending
    <2>4. EndInv'
      BY <1>0, <2>1, <2>3 DEF EndInv, PositionInv, SeenInv, Received
    <2>5. FileInv' /\ GotInv'
      BY <2>1 DEF FileInv, GotInv, Received
    <2>6. OutInv' /\ PositionInv' /\ SeenInv'
      BY <2>1, <2>2 DEF OutInv, PositionInv, SeenInv
    <2> QED BY <2>4, <2>5, <2>6
  <1>8. CASE Drop
    <2>1. UNCHANGED <<log, final, marked, got, ended>> /\ InFile' = InFile
      BY <1>8 DEF Drop, InFile
    <2>2. stream'.pc = "closed" /\ stream'.num = stream.num /\ stream'.out = << >>
      BY <1>8 DEF Drop, StreamTypes
    <2>3. Sending' = stream.num
      BY <1>0, <2>2 DEF Sending
    <2>4. FileInv' /\ GotInv' /\ EndInv'
      BY <2>1 DEF FileInv, GotInv, EndInv, Received
    <2>5. OutInv' /\ PositionInv' /\ SeenInv'
      BY <1>0, <2>1, <2>2, <2>3 DEF OutInv, PositionInv, SeenInv
    <2> QED BY <2>4, <2>5
  <1>9. CASE UNCHANGED lvars
    BY <1>9 DEF lvars, InFile, Received, Sending, FileInv, GotInv, OutInv, PositionInv, SeenInv, EndInv
  <1> QED BY <1>1, <1>2, <1>3, <1>4, <1>5, <1>6, <1>7, <1>8, <1>9 DEF StreamNext, Tailing

\* When "complete" arrives the browser has every line that was in the file when
\* the job ended, whatever the worker writes and however often it reconnects.
THEOREM CompleteIsComplete == StreamSpec => []CompleteHasAll
  <1>1. StreamInv => CompleteHasAll
    <2> SUFFICES ASSUME StreamInv PROVE CompleteHasAll
      OBVIOUS
    <2>1. ASSUME NEW i \in 1 .. Len(got), NEW n \in 0 .. got[i] PROVE \E j \in 1 .. i : got[j] = n
      <3>1. got[i] \in Nat /\ Received(got, got[i] + 1, i)
        BY DEF StreamInv, StreamTypes, GotInv
      <3> QED BY <3>1 DEF Received
    <2>2. ended => \A n \in 0 .. marked - 1 : \E j \in 1 .. Len(got) : got[j] = n
      BY DEF StreamInv, EndInv, Received
    <2> QED BY <2>1, <2>2 DEF CompleteHasAll
  <1> QED BY <1>1, StreamInitInv, StreamStep, PTL DEF StreamSpec

-----------------------------------------------------------------------------
(* EtherealFeed.  The socket that _sio names has every topic of the table, *)
(* or something is still under way that will send it; and a loop that      *)
(* disconnect() does not know of was orphaned by a handler.                *)

Sizes == {0} \cup {Cardinality(S) : S \in SUBSET Symbols}

SocketRecords ==
  [st : {"new", "opening", "up", "ready", "open", "lost", "down"}, server : SUBSET Topics,
   resub : SUBSET Symbols, size : Sizes, left : BOOLEAN, event : {"none", "pending", "awaits"}, awaits : Loops \cup {0}]

LoopRecords ==
  [pc : {"new", "top", "sleep", "connecting", "done"}, sock : Sockets \cup {0}, cancelled : BOOLEAN]

CallerRecords ==
  [pc : {"start", "connecting", "idle", "subscribing", "unsubscribing", "closing", "closing2", "closed"},
   topics : SUBSET Topics, awaits : Int]

FeedTypes ==
  /\ connected \in BOOLEAN /\ shutdown \in BOOLEAN /\ orphaned \in BOOLEAN
  /\ subs \in SUBSET Topics
  /\ sio \in Sockets \cup {0} /\ task \in Loops \cup {0}
  /\ sock \in [Sockets -> SocketRecords]
  /\ loop \in [Loops -> LoopRecords]
  /\ caller \in CallerRecords

\* Until disconnect() every loop is the one it would end; after it none connects.
LoopsInv ==
  ~orphaned => /\ ~shutdown => \A l \in Loops : Running(l) => l = task
               /\ shutdown => \A l \in Loops : loop[l].pc = "connecting" => loop[l].cancelled

ClosingInv == caller.pc \in {"closing", "closing2", "closed"} => shutdown

\* A topic of the table is at the server, or its handler or its caller will send it,
\* unless the handler has raised.
Covered(t) ==
  \/ t \in sock[sio].server
  \/ sock[sio].st = "up" /\ t[1] \in sock[sio].resub
  \/ caller.pc = "subscribing" /\ t \in caller.topics

TableInv == Alive(sio) /\ ~sock[sio].left => \A t \in subs : Covered(t)

\* What unsubscribe takes from the server is no longer in the table.
UnsubscribeInv == caller.pc = "unsubscribing" => caller.topics \cap subs = {}

FeedInv == FeedTypes /\ StaysClosed /\ LoopsInv /\ ClosingInv /\ TableInv /\ UnsubscribeInv

\* A client that was never connected is closed to nothing.
LEMMA FeedInitInv == FeedInit => FeedInv
  <1> SUFFICES ASSUME FeedInit PROVE FeedInv
    OBVIOUS
  <1> USE DEF FeedInit
  <1>1. NewSocket \in SocketRecords
    BY DEF NewSocket, SocketRecords, Sizes
  <1>2. [pc |-> "new", sock |-> 0, cancelled |-> FALSE] \in LoopRecords
    BY DEF LoopRecords
  <1>3. caller \in CallerRecords
    BY DEF CallerRecords
  <1>4. FeedTypes
    BY <1>1, <1>2, <1>3 DEF FeedTypes
  <1>5. \A l \in Loops : ~ Running(l)
    BY DEF Running
  <1> QED BY <1>4, <1>5 DEF FeedInv, StaysClosed, LoopsInv, ClosingInv, TableInv, UnsubscribeInv, Alive

\* connect() makes a socket that was not used before the one _sio names.
LEMMA OpenFacts ==
  ASSUME FeedTypes, Open
  PROVE  /\ Fresh \in Sockets /\ sock[Fresh].st = "new" /\ sio' = Fresh
         /\ sock' \in [Sockets -> SocketRecords] /\ sock'[Fresh].st = "opening"
  <1>1. Fresh \in Sockets /\ sock[Fresh].st = "new"
    BY DEF Open, CanOpen, Fresh
  <1>2. sock \in [Sockets -> SocketRecords]
    BY DEF FeedTypes
  <1> QED BY <1>1, <1>2 DEF Open, SocketRecords

\* Of the socket that connect() returns with, nothing but its state changes.
LEMMA ReturnedFacts ==
  ASSUME sock \in [Sockets -> SocketRecords], NEW k
  PROVE  /\ Returned(k) \in [Sockets -> SocketRecords]
         /\ \A j \in Sockets :
              /\ Returned(k)[j] = [sock[j] EXCEPT !.st = Returned(k)[j].st]
              /\ Returned(k)[j].st # sock[j].st => sock[j].st = "ready" /\ Returned(k)[j].st = "open"
  <1> DEFINE to == IF sock[k].st = "ready" THEN "open" ELSE sock[k].st
  <1>1. Returned(k) = [sock EXCEPT ![k] = [sock[k] EXCEPT !.st = to]]
    BY DEF Returned
  <1>2. k \in Sockets => [sock[k] EXCEPT !.st = to] \in SocketRecords
    BY DEF SocketRecords
  <1>3. \A j \in Sockets : Returned(k)[j] = IF j = k THEN [sock[j] EXCEPT !.st = to] ELSE sock[j]
    BY <1>1
  <1>4. \A j \in Sockets : sock[j] = [sock[j] EXCEPT !.st = sock[j].st]
    BY DEF SocketRecords
  <1>5. \A j \in Sockets : j = k => Returned(k)[j].st = to
    BY <1>3 DEF SocketRecords
  <1>6. \A j \in Sockets : j = k \/ Returned(k)[j] = sock[j]
    BY <1>3
  <1> QED BY <1>1, <1>2, <1>3, <1>4, <1>5, <1>6

\* The types are kept.
LEMMA FeedTypesStep == FeedTypes /\ [FeedNext]_fvars => FeedTypes'
  <1> SUFFICES ASSUME FeedTypes, [FeedNext]_fvars PROVE FeedTypes'
    OBVIOUS
  <1>0. \A T \in SUBSET Topics : SymbolsOf(T) \in SUBSET Symbols /\ Cardinality(SymbolsOf(T)) \in Sizes
    BY DEF SymbolsOf, Symbols, Sizes
  <1>o. \A s : Of(s) \in SUBSET Topics
    BY DEF Of, FeedTypes
  <1> USE DEF FeedTypes
  <1>1. ASSUME NEW k \in Sockets, Accept(k) PROVE FeedTypes'
    <2>1. sock' = [sock EXCEPT ![k] = [sock[k] EXCEPT !.st = "up", !.resub = SymbolsOf(subs),
                                                      !.size = Cardinality(SymbolsOf(subs))]]
      BY <1>1 DEF Accept
    <2>2. [sock[k] EXCEPT !.st = "up", !.resub = SymbolsOf(subs), !.size = Cardinality(SymbolsOf(subs))]
            \in SocketRecords
      BY <1>0 DEF SocketRecords
    <2> QED BY <1>1, <2>1, <2>2 DEF Accept
  <1>2. ASSUME NEW k \in Sockets, Lose(k) PROVE FeedTypes'
    <2>0. sock[k].event \in {"none", "pending", "awaits"}
      BY DEF SocketRecords
    <2>1. PICK st \in {"lost", "down"}, ev \in {"none", "pending", "awaits"} :
            sock' = [sock EXCEPT ![k].st = st, ![k].event = ev, ![k].server = {}, ![k].resub = {}]
      BY <1>2, <2>0 DEF Lose
    <2>2. sock' = [sock EXCEPT ![k] = [sock[k] EXCEPT !.st = st, !.event = ev, !.server = {}, !.resub = {}]]
      BY <2>1
    <2>3. [sock[k] EXCEPT !.st = st, !.event = ev, !.server = {}, !.resub = {}] \in SocketRecords
      BY DEF SocketRecords
    <2>4. sock' \in [Sockets -> SocketRecords]
      BY <2>2, <2>3
    <2>5. UNCHANGED <<connected, shutdown, subs, count, sio, task, loop, caller, orphaned>>
      BY <1>2 DEF Lose
    <2> QED BY <2>4, <2>5
  <1>3. ASSUME NEW k \in Sockets, Resubscribe(k) PROVE FeedTypes'
    <2>1. sock' \in [Sockets -> SocketRecords]
      <3>1. CASE sock' = [sock EXCEPT ![k].st = "ready", ![k].resub = {}, ![k].left = TRUE]
        <4>1. sock' = [sock EXCEPT ![k] = [sock[k] EXCEPT !.st = "ready", !.resub = {}, !.left = TRUE]]
          BY <3>1
        <4>2. [sock[k] EXCEPT !.st = "ready", !.resub = {}, !.left = TRUE] \in SocketRecords
          BY DEF SocketRecords
        <4> QED BY <4>1, <4>2
      <3>2. CASE \E s \in sock[k].resub :
             sock' = [j \in Sockets |->
               [sock[j] EXCEPT !.server = IF j = sio /\ Alive(j) THEN @ \cup Of(s) ELSE @,
                               !.resub  = IF j = k THEN @ \ {s} ELSE @]]
        <4>1. PICK s \in sock[k].resub :
             sock' = [j \in Sockets |->
               [sock[j] EXCEPT !.server = IF j = sio /\ Alive(j) THEN @ \cup Of(s) ELSE @,
                               !.resub  = IF j = k THEN @ \ {s} ELSE @]]
          BY <3>2
        <4>2. ASSUME NEW j \in Sockets PROVE sock'[j] \in SocketRecords
          <5> DEFINE v == IF j = sio /\ Alive(j) THEN sock[j].server \cup Of(s) ELSE sock[j].server
                     u == IF j = k THEN sock[j].resub \ {s} ELSE sock[j].resub
          <5>1. v \in SUBSET Topics /\ u \in SUBSET Symbols
            BY <1>o DEF SocketRecords
          <5>2. sock'[j] = [sock[j] EXCEPT !.server = v, !.resub = u]
            BY <4>1
          <5> HIDE DEF v, u
          <5>3. [sock[j] EXCEPT !.server = v, !.resub = u] \in SocketRecords
            BY <5>1 DEF SocketRecords
          <5> QED BY <5>2, <5>3
        <4> QED BY <4>1, <4>2
      <3>3. CASE sock' = [sock EXCEPT ![k].st = "ready"]
        BY <3>3 DEF SocketRecords
      <3> QED BY <1>3, <3>1, <3>2, <3>3 DEF Resubscribe
    <2> QED BY <1>3, <2>1 DEF Resubscribe
  <1>4. ASSUME NEW k \in Sockets, NEW l \in Loops, Restart(k, l)
        PROVE  /\ task' \in Loops \cup {0} /\ loop' \in [Loops -> LoopRecords]
               /\ sock' \in [Sockets -> SocketRecords] /\ orphaned' \in BOOLEAN
    <2>1. sock' = [sock EXCEPT ![k] = [sock[k] EXCEPT !.event = "none", !.awaits = 0]]
      BY <1>4 DEF Restart
    <2>2. [sock[k] EXCEPT !.event = "none", !.awaits = 0] \in SocketRecords
      BY DEF SocketRecords
    <2>3. loop' \in [Loops -> LoopRecords]
      BY <1>4 DEF Restart, LoopRecords
    <2>4. task' \in Loops \cup {0} /\ orphaned' \in BOOLEAN
      BY <1>4 DEF Restart, Create
    <2> QED BY <2>1, <2>2, <2>3, <2>4
  <1>5. ASSUME NEW k \in Sockets, OnDisconnect(k) PROVE FeedTypes'
    <2>1. /\ task' \in Loops \cup {0} /\ loop' \in [Loops -> LoopRecords]
          /\ sock' \in [Sockets -> SocketRecords] /\ orphaned' \in BOOLEAN
      <3>1. CASE shutdown
        BY <1>5, <3>1 DEF OnDisconnect, SocketRecords
      <3>2. CASE ~ shutdown /\ Running(task)
        <4>1. /\ loop' = [loop EXCEPT ![task].cancelled = TRUE] /\ UNCHANGED <<task, orphaned>>
              /\ sock' = [sock EXCEPT ![k].event = "awaits", ![k].awaits = task]
          BY <1>5, <3>2 DEF OnDisconnect
        <4>2. sock' = [sock EXCEPT ![k] = [sock[k] EXCEPT !.event = "awaits", !.awaits = task]]
          BY <4>1
        <4>3. [sock[k] EXCEPT !.event = "awaits", !.awaits = task] \in SocketRecords
          BY DEF SocketRecords
        <4>4. loop' \in [Loops -> LoopRecords]
          BY <4>1 DEF LoopRecords
        <4> QED BY <4>1, <4>2, <4>3, <4>4
      <3>3. CASE ~ shutdown /\ ~ Running(task)
        BY <1>4, <1>5, <3>3 DEF OnDisconnect
      <3> QED BY <3>1, <3>2, <3>3
    <2> QED BY <1>5, <2>1 DEF OnDisconnect
  <1>6. ASSUME NEW k \in Sockets, OnDisconnectResumes(k) PROVE FeedTypes'
    BY <1>4, <1>6 DEF OnDisconnectResumes
  <1>7. ASSUME NEW l \in Loops, LoopTop(l) \/ LoopCancelled(l) PROVE FeedTypes'
    <2>1. CASE LoopTop(l)
      BY <2>1 DEF LoopTop, LoopRecords
    <2>2. CASE LoopCancelled(l)
      BY <2>2 DEF LoopCancelled, LoopRecords
    <2> QED BY <1>7, <2>1, <2>2
  <1>8. ASSUME NEW l \in Loops, LoopWakes(l) PROVE FeedTypes'
    <2>1. CASE shutdown \/ connected
      BY <1>8, <2>1 DEF LoopWakes, LoopRecords
    <2>2. CASE ~ (shutdown \/ connected)
      <3>1. /\ Fresh \in Sockets /\ sio' = Fresh /\ sock' \in [Sockets -> SocketRecords]
            /\ loop' = [loop EXCEPT ![l].pc = "connecting", ![l].sock = Fresh]
        BY <1>8, <2>2, OpenFacts DEF LoopWakes
      <3>2. loop' = [loop EXCEPT ![l] = [loop[l] EXCEPT !.pc = "connecting", !.sock = Fresh]]
        BY <3>1
      <3>3. [loop[l] EXCEPT !.pc = "connecting", !.sock = Fresh] \in LoopRecords
        BY <3>1 DEF LoopRecords
      <3> QED BY <1>8, <3>1, <3>2, <3>3 DEF LoopWakes
    <2> QED BY <2>1, <2>2
  <1>9. ASSUME NEW l \in Loops, LoopConnects(l) PROVE FeedTypes'
    <2>1. connected' \in BOOLEAN
      BY <1>9, Zenon DEF LoopConnects
    <2>2. PICK pc \in {"done", "top"} : loop' = [loop EXCEPT ![l].pc = pc, ![l].sock = 0]
      BY <1>9 DEF LoopConnects
    <2>3. loop' = [loop EXCEPT ![l] = [loop[l] EXCEPT !.pc = pc, !.sock = 0]]
      BY <2>2
    <2>4. [loop[l] EXCEPT !.pc = pc, !.sock = 0] \in LoopRecords
      BY DEF LoopRecords
    <2>5. sock' \in [Sockets -> SocketRecords]
      BY <1>9, ReturnedFacts DEF LoopConnects
    <2> QED BY <1>9, <2>1, <2>3, <2>4, <2>5 DEF LoopConnects
  <1>10. CASE Connect
    <2>1. CASE connected
      BY <1>10, <2>1 DEF Connect, CallerRecords
    <2>2. CASE ~ connected
      <3>1. Fresh \in Sockets /\ sio' = Fresh /\ sock' \in [Sockets -> SocketRecords]
        BY <1>10, <2>2, OpenFacts DEF Connect
      <3>2. Fresh \in Int
        BY <3>1 DEF Sockets
      <3>3. caller' \in CallerRecords
        BY <1>10, <2>2, <3>2 DEF Connect, CallerRecords
      <3> QED BY <1>10, <2>2, <3>1, <3>3 DEF Connect
    <2> QED BY <2>1, <2>2
  <1>11. CASE ConnectEnds
    <2>1. connected' \in BOOLEAN
      BY <1>11, Zenon DEF ConnectEnds
    <2>2. caller' \in CallerRecords
      BY <1>11 DEF ConnectEnds, CallerRecords
    <2>3. sock' \in [Sockets -> SocketRecords]
      BY <1>11, ReturnedFacts DEF ConnectEnds
    <2> QED BY <1>11, <2>1, <2>2, <2>3 DEF ConnectEnds
  <1>12. CASE Subscribe
    BY <1>12 DEF Subscribe, CallerRecords
  <1>13. CASE Unsubscribe
    BY <1>o, <1>13 DEF Unsubscribe, CallerRecords
  <1>14. CASE Emit
    <2>1. PICK t \in caller.topics :
            /\ sock' = IF ~Alive(sio) THEN sock
                       ELSE [sock EXCEPT ![sio].server =
                               IF caller.pc = "subscribing" THEN @ \cup {t} ELSE @ \ {t}]
            /\ LET rest == IF caller.pc = "subscribing" /\ Refuses(sio) THEN {} ELSE caller.topics \ {t}
               IN  caller' = IF rest = {} THEN [pc |-> "idle", topics |-> {}, awaits |-> 0]
                             ELSE [caller EXCEPT !.topics = rest]
      BY <1>14 DEF Emit
    <2>2. t \in Topics
      BY <2>1 DEF CallerRecords
    <2>3. sock' \in [Sockets -> SocketRecords]
      BY <2>1, <2>2 DEF Alive, SocketRecords
    <2>4. caller' \in CallerRecords
      BY <2>1 DEF CallerRecords
    <2> QED BY <1>14, <2>3, <2>4 DEF Emit
  <1>15. CASE Disconnect
    <2>1. task \in Int
      BY DEF Loops
    <2>2. caller' \in CallerRecords
      BY <1>15, <2>1 DEF Disconnect, CallerRecords
    <2>3. loop' \in [Loops -> LoopRecords]
      BY <1>15 DEF Disconnect, LoopRecords, Running
    <2> QED BY <1>15, <2>2, <2>3 DEF Disconnect
  <1>16. CASE DisconnectCloses
    <2>1. CASE connected /\ Alive(sio)
      <3>0. sio \in Sockets
        BY <2>1 DEF Alive
      <3>3. sock[sio].event \in {"none", "pending", "awaits"}
        BY <3>0 DEF SocketRecords
      <3>4. PICK st \in {"lost", "down"}, ev \in {"none", "pending", "awaits"} :
            sock' = [sock EXCEPT ![sio].st = st, ![sio].event = ev, ![sio].server = {}, ![sio].resub = {}]
        BY <1>16, <2>1, <3>3 DEF DisconnectCloses
      <3>1. sock' = [sock EXCEPT ![sio] = [sock[sio] EXCEPT !.st = st, !.event = ev, !.server = {}, !.resub = {}]]
        BY <3>4
      <3>2. [sock[sio] EXCEPT !.st = st, !.event = ev, !.server = {}, !.resub = {}] \in SocketRecords
        BY <3>0 DEF SocketRecords
      <3>5. sock' \in [Sockets -> SocketRecords]
        BY <3>0, <3>1, <3>2
      <3>6. task' = 0 /\ UNCHANGED <<connected, shutdown, subs, count, sio, loop, orphaned>>
        BY <1>16 DEF DisconnectCloses
      <3>7. caller' \in CallerRecords
        BY <1>16 DEF DisconnectCloses, CallerRecords
      <3> QED BY <3>5, <3>6, <3>7
    <2>2. CASE ~ (connected /\ Alive(sio))
      BY <1>16, <2>2 DEF DisconnectCloses, CallerRecords
    <2> QED BY <2>1, <2>2
  <1>17. CASE DisconnectEnds
    <2>1. caller' \in CallerRecords
      BY <1>17 DEF DisconnectEnds, CallerRecords
    <2>2. connected' \in BOOLEAN
      BY <1>17, Zenon DEF DisconnectEnds
    <2> QED BY <1>17, <2>1, <2>2 DEF DisconnectEnds
  <1>18. CASE UNCHANGED fvars
    BY <1>18 DEF fvars
  <1> QED BY <1>1, <1>2, <1>3, <1>5, <1>6, <1>7, <1>8, <1>9, <1>10, <1>11, <1>12, <1>13, <1>14, <1>15, <1>16, <1>17, <1>18
          DEF FeedNext, SocketEvent, LoopStep, CallerResumes, CallerBegins


\* Only the steps below change what the loops and the end of the caller depend on.
LEMMA ClosedStep == FeedInv /\ [FeedNext]_fvars => StaysClosed' /\ LoopsInv' /\ ClosingInv'
  <1> SUFFICES ASSUME FeedInv, [FeedNext]_fvars PROVE StaysClosed' /\ LoopsInv' /\ ClosingInv'
    OBVIOUS
  <1>t. /\ loop \in [Loops -> LoopRecords] /\ task \in Loops \cup {0} /\ 0 \notin Loops
        /\ caller \in CallerRecords
    BY DEF FeedInv, FeedTypes, Loops
  <1>i. StaysClosed /\ LoopsInv /\ ClosingInv
    BY DEF FeedInv
  <1>1. CASE UNCHANGED <<connected, shutdown, subs, task, loop, caller, orphaned>>
    BY <1>i, <1>1 DEF StaysClosed, LoopsInv, ClosingInv, Running
  <1>2. CASE \E k \in Sockets : Accept(k) \/ Lose(k) \/ Resubscribe(k)
    BY <1>1, <1>2 DEF Accept, Lose, Resubscribe
  <1>3. ASSUME NEW k \in Sockets, NEW l \in Loops, Restart(k, l), UNCHANGED shutdown PROVE LoopsInv'
    <2> SUFFICES ASSUME ~ orphaned' PROVE LoopsInv'
      BY DEF LoopsInv
    <2>1. /\ ~ orphaned /\ (~ shutdown => ~ Running(task)) /\ UNCHANGED shutdown
          /\ task' = l /\ loop' = [loop EXCEPT ![l].pc = "top"]
      BY <1>3 DEF Restart, Create
    <2>2. ASSUME NEW j \in Loops, j # l PROVE Running(j)' => Running(j)
      <3>1. loop'[j] = loop[j]
        BY <1>t, <2>1, <2>2
      <3> QED BY <3>1 DEF Running
    <2>3. ASSUME NEW j \in Loops PROVE loop'[j].pc = "connecting" => loop'[j] = loop[j]
      BY <1>t, <2>1 DEF LoopRecords
    <2>4. CASE shutdown
      BY <1>i, <2>1, <2>3, <2>4 DEF LoopsInv
    <2>5. CASE ~ shutdown
      <3>1. \A j \in Loops : Running(j)' => j = l
        BY <1>i, <2>1, <2>2, <2>5 DEF LoopsInv
      <3> QED BY <2>1, <2>5, <3>1 DEF LoopsInv
    <2> QED BY <2>4, <2>5
  <1>4. ASSUME NEW k \in Sockets, OnDisconnect(k) PROVE StaysClosed' /\ LoopsInv' /\ ClosingInv'
    <2>1. /\ UNCHANGED <<shutdown, subs, caller>> /\ ~ connected'
      BY <1>4 DEF OnDisconnect
    <2>2. StaysClosed' /\ ClosingInv'
      BY <1>i, <2>1 DEF StaysClosed, ClosingInv
    <2>6. LoopsInv'
      <3>1. CASE UNCHANGED <<task, loop, orphaned>>
        BY <1>i, <2>1, <3>1 DEF LoopsInv, Running
      <3>2. CASE loop' = [loop EXCEPT ![task].cancelled = TRUE] /\ UNCHANGED <<task, orphaned>> /\ ~ shutdown
        <4>1. \A j \in Loops : loop'[j].pc = loop[j].pc
          BY <1>t, <3>2 DEF LoopRecords
        <4>2. \A j \in Loops : Running(j)' <=> Running(j)
          BY <4>1 DEF Running
        <4> QED BY <1>i, <2>1, <3>2, <4>2 DEF LoopsInv
      <3>3. CASE \E l \in Loops : Restart(k, l)
        BY <1>3, <2>1, <3>3
      <3> QED BY <1>4, <3>1, <3>2, <3>3 DEF OnDisconnect
    <2> QED BY <2>2, <2>6
  <1>5. ASSUME NEW k \in Sockets, OnDisconnectResumes(k) PROVE StaysClosed' /\ LoopsInv' /\ ClosingInv'
    <2>1. PICK l \in Loops : Restart(k, l)
      BY <1>5 DEF OnDisconnectResumes
    <2>2. UNCHANGED <<connected, shutdown, subs, caller>> /\ (orphaned => orphaned')
      BY <1>5, <2>1 DEF OnDisconnectResumes, Restart
    <2>3. StaysClosed' /\ ClosingInv'
      BY <1>i, <2>2 DEF StaysClosed, ClosingInv
    <2>4. LoopsInv'
      BY <1>3, <2>1, <2>2
    <2> QED BY <2>3, <2>4
  <1>6. ASSUME NEW l \in Loops, UNCHANGED <<shutdown, task, caller, orphaned, subs>>,
               \A j \in Loops : j # l => loop'[j] = loop[j], Running(l),
               loop'[l].cancelled = loop[l].cancelled, loop'[l].pc = "connecting" => ~ shutdown
        PROVE  LoopsInv' /\ ClosingInv'
    <2>1. \A j \in Loops : Running(j)' => Running(j)
      BY <1>6 DEF Running
    <2>2. shutdown => \A j \in Loops : loop'[j].pc = "connecting" => loop'[j] = loop[j]
      BY <1>6
    <2> QED BY <1>i, <1>6, <2>1, <2>2 DEF LoopsInv, ClosingInv
  <1>7. ASSUME NEW l \in Loops, LoopTop(l) \/ LoopWakes(l) \/ LoopCancelled(l)
        PROVE  StaysClosed' /\ LoopsInv' /\ ClosingInv'
    <2>1. /\ UNCHANGED <<shutdown, task, caller, orphaned, subs, connected>> /\ Running(l)
          /\ \A j \in Loops : j # l => loop'[j] = loop[j]
      BY <1>t, <1>7 DEF LoopTop, LoopWakes, LoopCancelled, Running
    <2>2. loop'[l].cancelled = loop[l].cancelled /\ (loop'[l].pc = "connecting" => ~ shutdown)
      BY <1>t, <1>7 DEF LoopTop, LoopWakes, LoopCancelled, LoopRecords
    <2> QED BY <1>i, <1>6, <2>1, <2>2 DEF StaysClosed
  <1>8. ASSUME NEW l \in Loops, LoopConnects(l) PROVE StaysClosed' /\ LoopsInv' /\ ClosingInv'
    <2>1. /\ UNCHANGED <<shutdown, task, caller, orphaned, subs>> /\ Running(l)
          /\ \A j \in Loops : j # l => loop'[j] = loop[j]
          /\ loop[l].pc = "connecting" /\ ~ loop[l].cancelled
      BY <1>t, <1>8 DEF LoopConnects, Running
    <2>2. loop'[l].cancelled = loop[l].cancelled /\ loop'[l].pc # "connecting"
      BY <1>t, <1>8 DEF LoopConnects, LoopRecords
    <2>3. shutdown => orphaned
      BY <1>i, <2>1 DEF LoopsInv
    <2> QED BY <1>i, <1>6, <2>1, <2>2, <2>3 DEF StaysClosed, ClosingInv
  <1>9. CASE Connect \/ ConnectEnds \/ Subscribe \/ Unsubscribe \/ Emit
    <2>1. /\ UNCHANGED <<shutdown, task, loop, orphaned>>
          /\ caller'.pc \in {"connecting", "start", "idle", "subscribing", "unsubscribing"}
      <3>1. CASE Connect
        BY <3>1 DEF Connect
      <3>2. CASE ConnectEnds
        BY <3>2 DEF ConnectEnds
      <3>3. CASE Subscribe
        BY <3>3 DEF Subscribe
      <3>4. CASE Unsubscribe
        BY <3>4 DEF Unsubscribe
      <3>5. CASE Emit
        BY <1>t, <3>5 DEF Emit, CallerRecords
      <3> QED BY <1>9, <3>1, <3>2, <3>3, <3>4, <3>5
    <2> QED BY <1>i, <2>1 DEF StaysClosed, LoopsInv, ClosingInv, Running
  <1>10. CASE Disconnect
    <2>1. /\ UNCHANGED <<task, orphaned>> /\ shutdown' /\ caller'.pc = "closing"
          /\ loop' = IF Running(task) THEN [loop EXCEPT ![task].cancelled = TRUE] ELSE loop
      BY <1>10 DEF Disconnect
    <2>2. ASSUME NEW l \in Loops, loop'[l].pc = "connecting", ~ orphaned PROVE loop'[l].cancelled
      <3>1. loop[l].pc = "connecting" /\ Running(l)
        BY <1>t, <2>1, <2>2 DEF LoopRecords, Running
      <3>2. CASE shutdown
        BY <1>i, <1>t, <2>1, <2>2, <3>1, <3>2 DEF LoopsInv, LoopRecords
      <3>3. CASE ~ shutdown
        <4>1. l = task
          BY <1>i, <2>2, <3>1, <3>3 DEF LoopsInv
        <4> QED BY <1>t, <2>1, <3>1, <4>1 DEF LoopRecords
      <3> QED BY <3>2, <3>3
    <2> QED BY <2>1, <2>2 DEF StaysClosed, LoopsInv, ClosingInv
  <1>11. CASE DisconnectCloses
    <2>1. UNCHANGED <<shutdown, loop, orphaned>> /\ shutdown /\ caller'.pc = "closing2"
      BY <1>i, <1>11 DEF DisconnectCloses, ClosingInv
    <2> QED BY <1>i, <2>1 DEF StaysClosed, LoopsInv, ClosingInv
  <1>12. CASE DisconnectEnds
    <2>1. UNCHANGED <<shutdown, loop, task, orphaned>> /\ shutdown /\ subs' = {} /\ ~ connected'
      BY <1>i, <1>12 DEF DisconnectEnds, ClosingInv
    <2> QED BY <1>i, <2>1 DEF StaysClosed, LoopsInv, ClosingInv, Running
  <1>13. CASE UNCHANGED fvars
    BY <1>1, <1>13 DEF fvars
  <1> QED BY <1>2, <1>4, <1>5, <1>7, <1>8, <1>9, <1>10, <1>11, <1>12, <1>13
          DEF FeedNext, SocketEvent, LoopStep, CallerResumes, CallerBegins

\* Whatever is done to the sockets, the topics of the table are covered.
LEMMA TableStep == FeedInv /\ [FeedNext]_fvars => TableInv' /\ UnsubscribeInv'
  <1> SUFFICES ASSUME FeedInv, [FeedNext]_fvars PROVE TableInv' /\ UnsubscribeInv'
    OBVIOUS
  <1>t. /\ sock \in [Sockets -> SocketRecords] /\ caller \in CallerRecords
        /\ subs \in SUBSET Topics /\ sio \in Sockets \cup {0} /\ 0 \notin Sockets
    BY DEF FeedInv, FeedTypes, Sockets
  <1>i. TableInv /\ UnsubscribeInv
    BY DEF FeedInv
  <1>a. Alive(sio) => sio \in Sockets
    BY <1>t DEF Alive
  <1>1. ASSUME UNCHANGED <<subs, caller, sio>>, Alive(sio)' => Alive(sio),
               Alive(sio) => /\ sock[sio].server \subseteq sock'[sio].server /\ sock'[sio].left = sock[sio].left
                             /\ sock'[sio].st = "up" \/ sock[sio].st # "up" \/ sock[sio].resub = {}
                             /\ \A t \in subs : t[1] \in sock[sio].resub \ sock'[sio].resub => t \in sock'[sio].server
        PROVE  TableInv' /\ UnsubscribeInv'
    BY <1>i, <1>1 DEF TableInv, UnsubscribeInv, Covered
  <1>2. CASE UNCHANGED <<subs, caller, sio, sock>>
    BY <1>1, <1>2 DEF Alive
  <1>3. ASSUME NEW k \in Sockets, Accept(k) PROVE TableInv' /\ UnsubscribeInv'
    <2>1. /\ UNCHANGED <<subs, caller, sio>> /\ sock[k].st = "opening"
          /\ \A j \in Sockets : j # k => sock'[j] = sock[j]
          /\ sock'[k].st = "up" /\ sock'[k].resub = SymbolsOf(subs)
      BY <1>t, <1>3 DEF Accept, SocketRecords
    <2>2. CASE sio = k
      <3>1. \A t \in subs : t[1] \in sock'[sio].resub
        BY <2>1, <2>2 DEF SymbolsOf
      <3> QED BY <1>i, <2>1, <2>2, <3>1 DEF TableInv, UnsubscribeInv, Covered
    <2>3. CASE sio # k
      BY <1>t, <1>i, <1>a, <2>1, <2>3 DEF TableInv, UnsubscribeInv, Covered, Alive
    <2> QED BY <2>2, <2>3
  <1>4. ASSUME NEW k \in Sockets, UNCHANGED <<subs, caller, sio>>,
               \A j \in Sockets : j # k => sock'[j] = sock[j],
               sock'[k].st \notin {"up", "ready", "open"} \/ sock'[k] = [sock[k] EXCEPT !.event = sock'[k].event, !.awaits = sock'[k].awaits]
        PROVE  TableInv' /\ UnsubscribeInv'
    <2>1. Alive(sio)' => Alive(sio) /\ sock'[sio].server = sock[sio].server /\ sock'[sio].left = sock[sio].left
                         /\ sock'[sio].st = sock[sio].st /\ sock'[sio].resub = sock[sio].resub
      <3>1. CASE sio # k
        BY <1>t, <1>4, <3>1 DEF Alive
      <3>2. CASE sio = k
        BY <1>t, <1>4, <3>2 DEF Alive, SocketRecords
      <3> QED BY <3>1, <3>2
    <2> QED BY <1>i, <1>4, <2>1 DEF TableInv, UnsubscribeInv, Covered
  <1>5. ASSUME NEW k \in Sockets, Lose(k) PROVE TableInv' /\ UnsubscribeInv'
    <2>1. /\ UNCHANGED <<subs, caller, sio>> /\ \A j \in Sockets : j # k => sock'[j] = sock[j]
          /\ sock'[k].st \in {"lost", "down"}
      BY <1>t, <1>5 DEF Lose, SocketRecords
    <2> QED BY <1>4, <2>1
  <1>6. ASSUME NEW k \in Sockets, Resubscribe(k) PROVE TableInv' /\ UnsubscribeInv'
    <2>1. UNCHANGED <<subs, caller, sio>> /\ sock[k].st = "up"
      BY <1>6 DEF Resubscribe
    <2>2. CASE sock' = [sock EXCEPT ![k].st = "ready", ![k].resub = {}, ![k].left = TRUE]
      <3>1. sock'[k].left /\ \A j \in Sockets : j # k => sock'[j] = sock[j]
        BY <1>t, <2>2 DEF SocketRecords
      <3>2. sio # k => sock'[sio] = sock[sio] \/ sio = 0
        BY <1>t, <3>1
      <3> QED BY <1>i, <1>t, <2>1, <3>1, <3>2 DEF TableInv, UnsubscribeInv, Covered, Alive
    <2>3. CASE \E s \in sock[k].resub :
             sock' = [j \in Sockets |->
               [sock[j] EXCEPT !.server = IF j = sio /\ Alive(j) THEN @ \cup Of(s) ELSE @,
                               !.resub  = IF j = k THEN @ \ {s} ELSE @]]
      <3>1. PICK s \in sock[k].resub :
             sock' = [j \in Sockets |->
               [sock[j] EXCEPT !.server = IF j = sio /\ Alive(j) THEN @ \cup Of(s) ELSE @,
                               !.resub  = IF j = k THEN @ \ {s} ELSE @]]
        BY <2>3
      <3>2. ASSUME sio \in Sockets
            PROVE  /\ sock'[sio].st = sock[sio].st /\ sock'[sio].left = sock[sio].left
                   /\ Alive(sio) => sock'[sio].server = sock[sio].server \cup Of(s)
                   /\ sock'[sio].resub = sock[sio].resub \/ sock'[sio].resub = sock[sio].resub \ {s}
        <4>1. sock'[sio] = [sock[sio] EXCEPT !.server = IF Alive(sio) THEN @ \cup Of(s) ELSE @,
                                             !.resub  = IF sio = k THEN @ \ {s} ELSE @]
          BY <3>1, <3>2
        <4>2. sock[sio] \in SocketRecords
          BY <1>t, <3>2
        <4> QED BY <4>1, <4>2 DEF SocketRecords
      <3>3. Alive(sio)' => Alive(sio)
        BY <1>t, <2>1, <3>2 DEF Alive
      <3>4. Alive(sio) => \A t \in subs : t[1] \in sock[sio].resub \ sock'[sio].resub => t \in sock'[sio].server
        <4> SUFFICES ASSUME Alive(sio), NEW t \in subs, t[1] \in sock[sio].resub \ sock'[sio].resub
                     PROVE  t \in sock'[sio].server
          OBVIOUS
        <4>1. t[1] = s
          BY <1>a, <3>2
        <4>2. t \in Of(s)
          BY <4>1 DEF Of
        <4> QED BY <1>a, <3>2, <4>2
      <3> QED BY <1>1, <1>a, <2>1, <3>2, <3>3, <3>4
    <2>4. CASE sock' = [sock EXCEPT ![k].st = "ready"] /\ sock[k].resub = {}
      <3>1. ASSUME sio \in Sockets
            PROVE  /\ sock'[sio].server = sock[sio].server /\ sock'[sio].resub = sock[sio].resub
                   /\ sock'[sio].left = sock[sio].left
                   /\ sock'[sio].st = sock[sio].st \/ (sio = k /\ sock[sio].st = "up")
        BY <1>t, <2>1, <2>4, <3>1 DEF SocketRecords
      <3>2. Alive(sio)' => Alive(sio)
        BY <1>t, <2>1, <3>1 DEF Alive
      <3> QED BY <1>1, <1>a, <2>1, <2>4, <3>1, <3>2
    <2> QED BY <1>6, <2>2, <2>3, <2>4 DEF Resubscribe
  <1>7. ASSUME NEW k \in Sockets, NEW l \in Loops, Restart(k, l), UNCHANGED <<subs, caller, sio>>
        PROVE  TableInv' /\ UnsubscribeInv'
    <2>1. sock' = [sock EXCEPT ![k].event = "none", ![k].awaits = 0]
      BY <1>7 DEF Restart
    <2>2. /\ \A j \in Sockets : j # k => sock'[j] = sock[j]
          /\ sock'[k] = [sock[k] EXCEPT !.event = sock'[k].event, !.awaits = sock'[k].awaits]
      BY <1>t, <2>1 DEF SocketRecords
    <2> QED BY <1>4, <1>7, <2>2
  <1>8. ASSUME NEW k \in Sockets, OnDisconnect(k) PROVE TableInv' /\ UnsubscribeInv'
    <2>1. UNCHANGED <<subs, caller, sio>>
      BY <1>8 DEF OnDisconnect
    <2>2. CASE sock' = [sock EXCEPT ![k].event = "none"]
      <3>1. /\ \A j \in Sockets : j # k => sock'[j] = sock[j]
            /\ sock'[k] = [sock[k] EXCEPT !.event = sock'[k].event, !.awaits = sock'[k].awaits]
        BY <1>t, <2>2 DEF SocketRecords
      <3> QED BY <1>4, <2>1, <3>1
    <2>3. CASE sock' = [sock EXCEPT ![k].event = "awaits", ![k].awaits = task]
      <3>1. /\ \A j \in Sockets : j # k => sock'[j] = sock[j]
            /\ sock'[k] = [sock[k] EXCEPT !.event = sock'[k].event, !.awaits = sock'[k].awaits]
        BY <1>t, <2>3 DEF SocketRecords
      <3> QED BY <1>4, <2>1, <3>1
    <2>4. CASE \E l \in Loops : Restart(k, l)
      BY <1>7, <2>1, <2>4
    <2> QED BY <1>8, <2>2, <2>3, <2>4 DEF OnDisconnect
  <1>9. ASSUME NEW k \in Sockets, OnDisconnectResumes(k) PROVE TableInv' /\ UnsubscribeInv'
    BY <1>7, <1>9 DEF OnDisconnectResumes
  <1>10. ASSUME Open, UNCHANGED subs, caller'.pc # "unsubscribing" \/ UNCHANGED caller
         PROVE  TableInv' /\ UnsubscribeInv'
    <2>1. sio' = Fresh /\ sock'[Fresh].st = "opening"
      BY <1>10, OpenFacts DEF FeedInv
    <2>2. ~ Alive(sio)'
      BY <2>1 DEF Alive
    <2> QED BY <1>i, <1>10, <2>2 DEF TableInv, UnsubscribeInv
  <1>r. ASSUME NEW k, sock' = Returned(k), UNCHANGED <<subs, sio>>,
               UNCHANGED caller \/ (caller.pc = "connecting" /\ caller'.pc = "idle")
        PROVE  TableInv' /\ UnsubscribeInv'
    <2>1. ASSUME sio \in Sockets
          PROVE  /\ sock'[sio].server = sock[sio].server /\ sock'[sio].resub = sock[sio].resub
                 /\ sock'[sio].left = sock[sio].left
                 /\ sock'[sio].st = sock[sio].st \/ (sock[sio].st = "ready" /\ sock'[sio].st = "open")
      <3>1. /\ sock'[sio] = [sock[sio] EXCEPT !.st = sock'[sio].st]
            /\ sock'[sio].st # sock[sio].st => sock[sio].st = "ready" /\ sock'[sio].st = "open"
        BY <1>r, <1>t, <2>1, ReturnedFacts
      <3>2. sock[sio] \in SocketRecords
        BY <1>t, <2>1
      <3> QED BY <3>1, <3>2 DEF SocketRecords
    <2>2. Alive(sio)' => Alive(sio)
      BY <1>r, <1>t, <2>1 DEF Alive
    <2>3. UnsubscribeInv'
      BY <1>i, <1>r DEF UnsubscribeInv
    <2>4. TableInv'
      <3> SUFFICES ASSUME Alive(sio)', ~sock'[sio].left, NEW t \in subs PROVE Covered(t)'
        BY <1>r DEF TableInv
      <3>1. sio \in Sockets /\ Alive(sio)
        BY <1>a, <2>2
      <3>2. Covered(t)
        BY <1>i, <2>1, <3>1 DEF TableInv
      <3> QED BY <1>r, <2>1, <3>1, <3>2 DEF Covered
    <2> QED BY <2>3, <2>4
  <1>11. ASSUME NEW l \in Loops, LoopStep(l) PROVE TableInv' /\ UnsubscribeInv'
    <2>1. CASE LoopWakes(l)
      BY <1>2, <1>10, <2>1 DEF LoopWakes
    <2>2. CASE LoopTop(l) \/ LoopCancelled(l)
      BY <1>2, <2>2 DEF LoopTop, LoopCancelled
    <2>3. CASE LoopConnects(l)
      BY <1>2, <1>r, <2>3 DEF LoopConnects
    <2> QED BY <1>11, <2>1, <2>2, <2>3 DEF LoopStep
  <1>12. ASSUME UNCHANGED <<subs, sio, sock>>, caller.pc # "subscribing", caller'.pc # "unsubscribing"
         PROVE  TableInv' /\ UnsubscribeInv'
    BY <1>i, <1>12 DEF TableInv, UnsubscribeInv, Covered, Alive
  <1>13. CASE Connect
    <2>1. CASE connected
      BY <1>12, <1>13, <2>1 DEF Connect
    <2>2. CASE ~ connected
      BY <1>10, <1>13, <2>2 DEF Connect
    <2> QED BY <2>1, <2>2
  <1>14. CASE ConnectEnds
    <2>1. CASE sock' = Returned(caller.awaits) /\ caller' = [pc |-> "idle", topics |-> {}, awaits |-> 0]
      BY <1>14, <1>r, <2>1 DEF ConnectEnds
    <2>2. CASE UNCHANGED sock /\ caller' = [pc |-> "start", topics |-> {}, awaits |-> 0]
      BY <1>12, <1>14, <2>2 DEF ConnectEnds
    <2> QED BY <1>14, <2>1, <2>2 DEF ConnectEnds
  <1>15. CASE Subscribe
    <2>1. PICK T \in SUBSET Topics :
            /\ subs' = subs \cup T /\ caller' = [pc |-> "subscribing", topics |-> T, awaits |-> 0]
            /\ UNCHANGED <<sio, sock>> /\ caller.pc = "idle"
      BY <1>15 DEF Subscribe
    <2> QED BY <1>i, <2>1 DEF TableInv, UnsubscribeInv, Covered, Alive
  <1>16. CASE Unsubscribe
    <2>1. PICK s \in SymbolsOf(subs) :
            /\ subs' = subs \ Of(s) /\ UNCHANGED <<sio, sock>> /\ caller.pc = "idle"
            /\ caller' = [pc |-> "unsubscribing", topics |-> Of(s), awaits |-> 0] \/ caller' = caller
      BY <1>16 DEF Unsubscribe
    <2> QED BY <1>i, <2>1 DEF TableInv, UnsubscribeInv, Covered, Alive
  <1>17. CASE Emit
    <2>1. PICK t \in caller.topics :
            /\ sock' = IF ~Alive(sio) THEN sock
                       ELSE [sock EXCEPT ![sio].server =
                               IF caller.pc = "subscribing" THEN @ \cup {t} ELSE @ \ {t}]
            /\ LET rest == IF caller.pc = "subscribing" /\ Refuses(sio) THEN {} ELSE caller.topics \ {t}
               IN  caller' = IF rest = {} THEN [pc |-> "idle", topics |-> {}, awaits |-> 0]
                             ELSE [caller EXCEPT !.topics = rest]
      BY <1>17 DEF Emit
    <2>2. UNCHANGED <<subs, sio>> /\ caller.pc \in {"subscribing", "unsubscribing"}
      BY <1>17 DEF Emit
    <2>3. caller'.pc = "idle" \/ (caller'.pc = caller.pc /\ caller'.topics = caller.topics \ {t})
      BY <1>t, <2>1, <2>2 DEF CallerRecords
    <2>4. UnsubscribeInv'
      BY <1>i, <2>2, <2>3 DEF UnsubscribeInv
    <2>5. ASSUME Alive(sio)', ~sock'[sio].left, NEW u \in subs PROVE Covered(u)'
      <3>1. Alive(sio) /\ sio \in Sockets
        BY <1>a, <2>1, <2>2, <2>5 DEF Alive
      <3>2. /\ sock'[sio].st = sock[sio].st /\ sock'[sio].resub = sock[sio].resub
            /\ sock'[sio].left = sock[sio].left
            /\ sock'[sio].server = IF caller.pc = "subscribing" THEN sock[sio].server \cup {t}
                                   ELSE sock[sio].server \ {t}
        BY <1>t, <2>1, <3>1 DEF SocketRecords
      <3>3. Covered(u)
        BY <1>i, <2>5, <3>1, <3>2 DEF TableInv
      <3>4. CASE caller.pc = "subscribing"
        <4>1. caller.topics \ {t} = {} \/ (caller'.pc = caller.pc /\ caller'.topics = caller.topics \ {t})
          BY <1>t, <2>1, <3>1, <3>4 DEF CallerRecords, Alive, Refuses
        <4> QED BY <2>2, <3>2, <3>3, <3>4, <4>1 DEF Covered
      <3>5. CASE caller.pc = "unsubscribing"
        <4>1. u # t
          BY <1>i, <2>1, <2>5, <3>5 DEF UnsubscribeInv
        <4> QED BY <2>2, <3>2, <3>3, <3>5, <4>1 DEF Covered
      <3> QED BY <2>2, <3>4, <3>5
    <2> QED BY <2>2, <2>4, <2>5 DEF TableInv
  <1>18. CASE Disconnect
    BY <1>12, <1>18 DEF Disconnect
  <1>19. CASE DisconnectCloses
    <2>1. UNCHANGED <<subs, sio>> /\ caller.pc = "closing" /\ caller'.pc = "closing2"
      BY <1>19 DEF DisconnectCloses
    <2>2. CASE connected /\ Alive(sio)
      <3>1. sock'[sio].st \in {"down", "lost"}
        BY <1>t, <1>a, <1>19, <2>2 DEF DisconnectCloses, SocketRecords
      <3> QED BY <2>1, <3>1 DEF TableInv, UnsubscribeInv, Alive
    <2>3. CASE ~ (connected /\ Alive(sio))
      BY <1>12, <1>19, <2>1, <2>3 DEF DisconnectCloses
    <2> QED BY <2>2, <2>3
  <1>20. CASE DisconnectEnds
    BY <1>20 DEF DisconnectEnds, TableInv, UnsubscribeInv
  <1>21. CASE UNCHANGED fvars
    BY <1>2, <1>21 DEF fvars
  <1> QED BY <1>3, <1>5, <1>6, <1>8, <1>9, <1>11, <1>13, <1>14, <1>15, <1>16, <1>17, <1>18, <1>19, <1>20, <1>21
          DEF FeedNext, SocketEvent, CallerResumes, CallerBegins

\* The whole invariant, step by step.
LEMMA FeedStep == FeedInv /\ [FeedNext]_fvars => FeedInv'
  BY FeedTypesStep, ClosedStep, TableStep DEF FeedInv

\* disconnect() leaves the client closed for good, but for a loop that was
\* orphaned by a second on_disconnect handler.
THEOREM DisconnectedStays == FeedSpec => []StaysClosed
  <1>1. FeedInv => StaysClosed
    BY DEF FeedInv
  <1> QED BY <1>1, FeedInitInv, FeedStep, PTL DEF FeedSpec

\* A connected client at rest receives every topic of its table, whatever was
\* lost, reconnected, subscribed and unsubscribed in between, unless the handler
\* of its socket raised.
THEOREM TableIsDelivered == FeedSpec => []FeedRestored
  <1>1. FeedInv => FeedRestored
    <2> SUFFICES ASSUME FeedInv, Alive(sio), sock[sio].st # "up", ~sock[sio].left, caller.pc = "idle", NEW t \in subs
                 PROVE  Delivered(t)
      BY DEF FeedRestored
    <2>1. Covered(t) /\ sio \in Sockets
      BY DEF FeedInv, TableInv, FeedTypes, Alive
    <2> QED BY <2>1 DEF Covered, Delivered
  <1> QED BY <1>1, FeedInitInv, FeedStep, PTL DEF FeedSpec

-----------------------------------------------------------------------------
(* Channels.  The set registered under a name is never empty and has only  *)
(* connections of that name; until the heartbeat comes late no other set   *)
(* has any, and a coroutine empties the set that it found registered.      *)

Coroutines == Broadcasters \cup {Heart}

Entries == [name : Names, object : Clients]

CoroRecords ==
  [at : {"idle", "enter", "next", "await", "tidy", "done"}, todo : Seq(Entries), began : SUBSET Clients,
   visited : SUBSET Clients, dead : SUBSET Clients, to : Clients \cup {NoClient}]

ChannelsTypes ==
  /\ members \in [Clients -> SUBSET Clients]
  /\ channel \in [Names -> Clients \cup {NoSet}]
  /\ peer \in [Clients -> {"new", "open", "broken", "closed"}]
  /\ coro \in [Coroutines -> CoroRecords]
  /\ holder \in Coroutines \cup {NoClient}
  /\ late \in BOOLEAN

Registered == {n \in Names : channel[n] # NoSet}

FiniteInv ==
  /\ IsFiniteSet(Registered)
  /\ \A o \in Clients : IsFiniteSet(members[o])
  /\ \A t \in Coroutines : IsFiniteSet(coro[t].began)

NewInv == \A c \in Clients : peer[c] = "new" => members[c] = {} /\ \A o \in Clients : c \notin members[o]

RegisteredInv ==
  \A n \in Registered :
    /\ ChannelOf[channel[n]] = n /\ members[channel[n]] # {}
    /\ \A c \in members[channel[n]] : ChannelOf[c] = n /\ peer[c] \in {"open", "broken"}

LiveInv ==
  ~late => /\ \A o \in Clients : members[o] # {} => channel[ChannelOf[o]] = o
           /\ \A c \in Clients : peer[c] = "open" => /\ channel[ChannelOf[c]] # NoSet
                                                      /\ c \in members[channel[ChannelOf[c]]]

\* Each entry of a list names the channel of its set, and the list is not used up.
TodoInv ==
  \A t \in Coroutines :
    /\ \A i \in 1 .. Len(coro[t].todo) : ChannelOf[coro[t].todo[i].object] = coro[t].todo[i].name
    /\ coro[t].at \in {"next", "await", "tidy"} => coro[t].todo # << >>

\* Nobody is sent to before it came, or given up while its sends succeed.
DeadInv ==
  \A t \in Coroutines :
    /\ \A c \in coro[t].dead : peer[c] \in {"broken", "closed"}
    /\ coro[t].at = "await" => coro[t].to \in Clients /\ peer[coro[t].to] # "new"

HolderInv == \A t \in Coroutines : coro[t].at \in {"enter", "next", "tidy"} => holder = t

\* A broadcast finds its channel's set with somebody in it, and goes through no other.
BroadcastInv ==
  \A b \in Broadcasters :
    /\ Len(coro[b].todo) <= 1
    /\ coro[b].at = "enter" /\ coro[b].todo # << >> => members[Object(b)] # {}
    /\ coro[b].at \in {"next", "await"} => coro[b].began # {}
    /\ coro[b].at = "tidy" => members[Object(b)] # {}

ChannelsInv ==
  /\ ChannelsTypes /\ FiniteInv /\ NewInv /\ RegisteredInv /\ LiveInv
  /\ TodoInv /\ DeadInv /\ HolderInv /\ BroadcastInv

\* A coroutine that does nothing.
LEMMA IdleFacts ==
  /\ Idle \in CoroRecords /\ Idle.at = "idle" /\ Idle.todo = << >> /\ Idle.began = {} /\ Idle.dead = {}
  /\ [Idle EXCEPT !.at = "done"] \in CoroRecords
  /\ \A s \in Seq(Entries) : Begin(s) \in CoroRecords /\ Begin(s).at = "enter" /\ Begin(s).todo = s
                             /\ Begin(s).began = {} /\ Begin(s).dead = {}
  <1>1. << >> \in Seq(Entries)
    OBVIOUS
  <1> QED BY <1>1 DEF Idle, Begin, CoroRecords

\* At the start nobody has come.
LEMMA ChannelsInitInv == ChannelsInit => ChannelsInv
  <1> SUFFICES ASSUME ChannelsInit PROVE ChannelsInv
    OBVIOUS
  <1> USE IdleFacts DEF ChannelsInit
  <1>1. ChannelsTypes
    BY DEF ChannelsTypes, Coroutines
  <1>2. Registered = {}
    BY DEF Registered
  <1>3. FiniteInv
    BY <1>2, FS_EmptySet DEF FiniteInv, Coroutines
  <1>4. NewInv /\ RegisteredInv /\ LiveInv
    BY <1>2 DEF NewInv, RegisteredInv, LiveInv
  <1>5. TodoInv /\ DeadInv /\ HolderInv /\ BroadcastInv
    BY DEF TodoInv, DeadInv, HolderInv, BroadcastInv, Coroutines
  <1> QED BY <1>1, <1>3, <1>4, <1>5 DEF ChannelsInv

\* What is at the head of a list that is not used up.
LEMMA EntryFacts ==
  ASSUME ChannelsInv, NEW t \in Coroutines, coro[t].todo # << >>
  PROVE  /\ Name(t) \in Names /\ Object(t) \in Clients /\ ChannelOf[Object(t)] = Name(t)
         /\ Tail(coro[t].todo) \in Seq(Entries) /\ Len(Tail(coro[t].todo)) = Len(coro[t].todo) - 1
         /\ \A i \in 1 .. Len(Tail(coro[t].todo)) : Tail(coro[t].todo)[i] = coro[t].todo[i + 1]
  <1>1. coro[t].todo \in Seq(Entries) /\ 1 \in 1 .. Len(coro[t].todo)
    BY DEF ChannelsInv, ChannelsTypes, CoroRecords
  <1>2. Head(coro[t].todo) = coro[t].todo[1] /\ Head(coro[t].todo) \in Entries
    BY <1>1
  <1>3. ChannelOf[coro[t].todo[1].object] = coro[t].todo[1].name
    BY <1>1 DEF ChannelsInv, TodoInv
  <1>4. Name(t) \in Names /\ Object(t) \in Clients /\ ChannelOf[Object(t)] = Name(t)
    BY <1>2, <1>3 DEF Name, Object, Entries
  <1> QED BY <1>1, <1>4

\* Nobody runs while an endpoint does, and a coroutine is not the sentinel.
LEMMA HolderFacts ==
  ASSUME ChannelsInv
  PROVE  /\ NoClient \notin Coroutines
         /\ \A t \in Coroutines : coro[t] \in CoroRecords
         /\ holder = NoClient => \A t \in Coroutines : coro[t].at \notin {"enter", "next", "tidy"}
         /\ \A t, u \in Coroutines : holder = t /\ u # t => coro[u].at \notin {"enter", "next", "tidy"}
  BY ChannelsConfig DEF ChannelsInv, ChannelsTypes, HolderInv, Coroutines

\* A connection arrives, is broken or leaves: what the coroutines know stays true.
LEMMA EndpointKeepsCoroutines ==
  ASSUME ChannelsInv, NEW c \in Clients, Join(c) \/ Break(c) \/ Leave(c)
  PROVE  TodoInv' /\ DeadInv' /\ HolderInv' /\ BroadcastInv' /\ (\A t \in Coroutines : IsFiniteSet(coro'[t].began))
  <1>1. /\ UNCHANGED <<coro, holder, late>> /\ holder = NoClient
        /\ \A d \in Clients : d # c => peer'[d] = peer[d]
        /\ (peer'[c] = "open" /\ peer[c] = "new") \/ peer'[c] \in {"broken", "closed"}
    BY DEF Join, Break, Leave, ChannelsInv, ChannelsTypes
  <1>2. TodoInv' /\ HolderInv' /\ (\A t \in Coroutines : IsFiniteSet(coro'[t].began))
    BY <1>1 DEF ChannelsInv, TodoInv, HolderInv, FiniteInv
  <1>3. DeadInv'
    <2> SUFFICES ASSUME NEW t \in Coroutines
                 PROVE  /\ \A d \in coro[t].dead : peer'[d] \in {"broken", "closed"}
                        /\ coro[t].at = "await" => coro[t].to \in Clients /\ peer'[coro[t].to] # "new"
      BY <1>1 DEF DeadInv
    <2>1. /\ \A d \in coro[t].dead : peer[d] \in {"broken", "closed"} /\ d \in Clients
          /\ coro[t].at = "await" => coro[t].to \in Clients /\ peer[coro[t].to] # "new"
      BY DEF ChannelsInv, DeadInv, ChannelsTypes, CoroRecords
    <2> QED BY <1>1, <2>1
  <1>4. BroadcastInv'
    <2>1. \A b \in Broadcasters : coro[b].at \notin {"enter", "tidy"}
      BY <1>1, HolderFacts DEF Coroutines
    <2> QED BY <1>1, <2>1 DEF ChannelsInv, BroadcastInv
  <1> QED BY <1>2, <1>3, <1>4

\* A connection arrives: in the set of its channel, or in a new one of its own.
LEMMA JoinStep == \A c \in Clients : ChannelsInv /\ Join(c) => ChannelsInv'
  <1> SUFFICES ASSUME NEW c \in Clients, ChannelsInv, Join(c) PROVE ChannelsInv'
    OBVIOUS
  <1> DEFINE n == ChannelOf[c]
             o == IF channel[n] = NoSet THEN c ELSE channel[n]
  <1>t. ChannelsTypes /\ n \in Names
    BY DEF ChannelsInv, Names
  <1>o. o \in Clients
    BY <1>t DEF ChannelsTypes
  <1>1. /\ peer[c] = "new" /\ peer' = [peer EXCEPT ![c] = "open"]
        /\ channel' = [channel EXCEPT ![n] = o] /\ members' = [members EXCEPT ![o] = @ \cup {c}]
        /\ UNCHANGED <<coro, holder, late>>
    BY DEF Join
  <1>2. ChannelsTypes'
    BY <1>t, <1>o, <1>1 DEF ChannelsTypes
  <1>3. /\ \A x \in Clients : members'[x] = IF x = o THEN members[o] \cup {c} ELSE members[x]
        /\ \A m \in Names : channel'[m] = IF m = n THEN o ELSE channel[m]
        /\ \A d \in Clients : peer'[d] = IF d = c THEN "open" ELSE peer[d]
    BY <1>t, <1>o, <1>1 DEF ChannelsTypes
  <1>4. o # NoSet /\ NoSet \notin Clients
    BY <1>o, ChannelsConfig
  <1>n. members[c] = {} /\ \A x \in Clients : c \notin members[x]
    BY <1>1 DEF ChannelsInv, NewInv
  <1>r. n \in Registered => channel[n] = o /\ ChannelOf[o] = n
    BY <1>4 DEF ChannelsInv, RegisteredInv, Registered
  <1>s. n \notin Registered => o = c
    BY <1>t DEF Registered
  <1>k. ChannelOf[o] = n
    BY <1>r, <1>s
  <1>h. \A m \in Registered : channel[m] = o => m = n
    <2>1. \A m \in Registered : ChannelOf[channel[m]] = m
      BY DEF ChannelsInv, RegisteredInv
    <2> QED BY <1>k, <2>1
  <1> HIDE DEF o, n
  <1>5. FiniteInv'
    <2>1. Registered' = Registered \cup {n}
      BY <1>t, <1>3, <1>4 DEF Registered
    <2>2. IsFiniteSet(Registered')
      BY <2>1, FS_AddElement DEF ChannelsInv, FiniteInv
    <2>3. \A x \in Clients : IsFiniteSet(members'[x])
      BY <1>3, <1>o, FS_AddElement DEF ChannelsInv, FiniteInv
    <2> QED BY <1>1, <2>2, <2>3 DEF ChannelsInv, FiniteInv
  <1>6. NewInv'
    <2> SUFFICES ASSUME NEW d \in Clients, peer'[d] = "new"
                 PROVE  members'[d] = {} /\ \A x \in Clients : d \notin members'[x]
      BY DEF NewInv
    <2>1. d # c /\ peer[d] = "new" /\ members[d] = {} /\ \A x \in Clients : d \notin members[x]
      BY <1>3 DEF ChannelsInv, NewInv
    <2>2. d # o
      <3>1. CASE n \in Registered
        BY <1>r, <2>1, <3>1 DEF ChannelsInv, RegisteredInv
      <3>2. CASE n \notin Registered
        BY <1>s, <2>1, <3>2
      <3> QED BY <3>1, <3>2
    <2> QED BY <1>3, <2>1, <2>2
  <1>7. RegisteredInv'
    <2> SUFFICES ASSUME NEW m \in Registered'
                 PROVE  /\ ChannelOf[channel'[m]] = m /\ members'[channel'[m]] # {}
                        /\ \A d \in members'[channel'[m]] : ChannelOf[d] = m /\ peer'[d] \in {"open", "broken"}
      BY DEF RegisteredInv
    <2>1. m \in Names /\ channel'[m] # NoSet
      BY DEF Registered
    <2>2. CASE m = n
      <3>1. channel'[m] = o /\ members'[o] = members[o] \cup {c}
        BY <1>3, <1>o, <2>1, <2>2
      <3>2. \A d \in members[o] : ChannelOf[d] = n /\ peer[d] \in {"open", "broken"}
        <4>1. CASE n \in Registered
          BY <1>r, <4>1 DEF ChannelsInv, RegisteredInv
        <4>2. CASE n \notin Registered
          BY <1>n, <1>s, <4>2
        <4> QED BY <4>1, <4>2
      <3>3. members[o] \subseteq Clients
        BY <1>t, <1>o DEF ChannelsTypes
      <3>4. ChannelOf[c] = n
        BY DEF n
      <3> QED BY <1>3, <1>k, <2>2, <3>1, <3>2, <3>3, <3>4
    <2>3. CASE m # n
      <3>1. m \in Registered /\ channel'[m] = channel[m] /\ channel[m] \in Clients
        BY <1>t, <1>3, <2>1, <2>3 DEF Registered, ChannelsTypes
      <3>2. channel[m] # o
        BY <1>h, <2>3, <3>1
      <3>3. members'[channel[m]] = members[channel[m]] /\ members[channel[m]] \subseteq Clients
        BY <1>t, <1>3, <3>1, <3>2 DEF ChannelsTypes
      <3>4. /\ ChannelOf[channel[m]] = m /\ members[channel[m]] # {}
            /\ \A d \in members[channel[m]] : ChannelOf[d] = m /\ peer[d] \in {"open", "broken"}
        BY <3>1 DEF ChannelsInv, RegisteredInv
      <3> QED BY <1>3, <3>1, <3>3, <3>4
    <2> QED BY <2>2, <2>3
  <1>8. LiveInv'
    <2> SUFFICES ASSUME ~ late
                 PROVE  /\ \A x \in Clients : members'[x] # {} => channel'[ChannelOf[x]] = x
                        /\ \A d \in Clients : peer'[d] = "open" => /\ channel'[ChannelOf[d]] # NoSet
                                                                    /\ d \in members'[channel'[ChannelOf[d]]]
      BY <1>1 DEF LiveInv
    <2>1. /\ \A x \in Clients : members[x] # {} => channel[ChannelOf[x]] = x
          /\ \A d \in Clients : peer[d] = "open" => /\ channel[ChannelOf[d]] # NoSet
                                                     /\ d \in members[channel[ChannelOf[d]]]
      BY DEF ChannelsInv, LiveInv
    <2>2. \A d \in Clients : ChannelOf[d] \in Names
      BY DEF Names
    <2>3. ASSUME NEW x \in Clients, members'[x] # {} PROVE channel'[ChannelOf[x]] = x
      <3>1. CASE x = o
        BY <1>3, <1>k, <2>2, <3>1
      <3>2. CASE x # o
        <4>1. channel[ChannelOf[x]] = x
          BY <1>3, <2>1, <2>3, <3>2
        <4>2. ChannelOf[x] # n
          <5>1. ChannelOf[x] = n => n \in Registered
            BY <1>4, <2>2, <4>1 DEF Registered
          <5> QED BY <1>r, <3>2, <4>1, <5>1
        <4> QED BY <1>3, <2>2, <4>1, <4>2
      <3> QED BY <3>1, <3>2
    <2>4. ASSUME NEW d \in Clients, peer'[d] = "open"
          PROVE  channel'[ChannelOf[d]] # NoSet /\ d \in members'[channel'[ChannelOf[d]]]
      <3>1. CASE d = c
        BY <1>3, <1>4, <1>o, <1>t, <3>1 DEF n
      <3>2. CASE d # c
        <4>1. channel[ChannelOf[d]] # NoSet /\ d \in members[channel[ChannelOf[d]]]
          BY <1>3, <2>1, <2>4, <3>2
        <4>2. channel'[ChannelOf[d]] = channel[ChannelOf[d]]
          BY <1>3, <1>r, <2>2, <4>1 DEF Registered
        <4>3. channel[ChannelOf[d]] \in Clients
          BY <1>t, <2>2, <4>1 DEF ChannelsTypes
        <4> QED BY <1>3, <4>1, <4>2, <4>3
      <3> QED BY <3>1, <3>2
    <2> QED BY <2>3, <2>4
  <1> QED BY <1>2, <1>5, <1>6, <1>7, <1>8, EndpointKeepsCoroutines DEF ChannelsInv

\* A connection is broken.
LEMMA BreakStep == \A c \in Clients : ChannelsInv /\ Break(c) => ChannelsInv'
  <1> SUFFICES ASSUME NEW c \in Clients, ChannelsInv, Break(c) PROVE ChannelsInv'
    OBVIOUS
  <1>1. /\ peer[c] = "open" /\ peer' = [peer EXCEPT ![c] = "broken"]
        /\ UNCHANGED <<members, channel, coro, holder, late>>
    BY DEF Break
  <1>t. ChannelsTypes
    BY DEF ChannelsInv
  <1>2. \A d \in Clients : peer'[d] = IF d = c THEN "broken" ELSE peer[d]
    BY <1>t, <1>1 DEF ChannelsTypes
  <1>3. ChannelsTypes' /\ Registered' = Registered
    BY <1>t, <1>1 DEF ChannelsTypes, Registered
  <1>4. FiniteInv' /\ NewInv'
    BY <1>1, <1>2, <1>3 DEF ChannelsInv, FiniteInv, NewInv
  <1>5. RegisteredInv'
    <2>1. ASSUME NEW m \in Registered, NEW d \in members[channel[m]] PROVE peer'[d] \in {"open", "broken"}
      <3>1. d \in Clients
        BY <1>t, <2>1 DEF ChannelsTypes, Registered
      <3> QED BY <1>2, <2>1, <3>1 DEF ChannelsInv, RegisteredInv
    <2> QED BY <1>1, <1>3, <2>1 DEF ChannelsInv, RegisteredInv
  <1>6. LiveInv'
    BY <1>1, <1>2 DEF ChannelsInv, LiveInv
  <1> QED BY <1>3, <1>4, <1>5, <1>6, EndpointKeepsCoroutines DEF ChannelsInv

\* Some of the set o leave it, and its channel goes when nobody is left: what was true
\* of the sets and the channels stays true.
LEMMA SetShrinks ==
  ASSUME ChannelsInv, NEW o \in Clients, NEW rest \in SUBSET members[o],
         members' = [members EXCEPT ![o] = rest],
         channel' \in {channel, [channel EXCEPT ![ChannelOf[o]] = NoSet]},
         rest = {} => channel'[ChannelOf[o]] = NoSet,
         \A c \in Clients : peer[c] # "new" => peer'[c] # "new",
         \A c \in Clients : peer'[c] # peer[c] => \A m \in Registered' : c \notin members'[channel'[m]],
         peer' \in [Clients -> {"new", "open", "broken", "closed"}]
  PROVE  /\ members' \in [Clients -> SUBSET Clients] /\ channel' \in [Names -> Clients \cup {NoSet}]
         /\ IsFiniteSet(Registered') /\ (\A x \in Clients : IsFiniteSet(members'[x]))
         /\ RegisteredInv' /\ NewInv'
  <1> DEFINE n == ChannelOf[o]
  <1>t. ChannelsTypes /\ n \in Names
    BY DEF ChannelsInv, Names
  <1>1. /\ \A x \in Clients : members'[x] = IF x = o THEN rest ELSE members[x]
        /\ \A m \in Names : channel'[m] = channel[m] \/ (m = n /\ channel'[m] = NoSet)
        /\ \A x \in Clients : members'[x] \subseteq members[x] /\ members[x] \subseteq Clients
    BY <1>t DEF ChannelsTypes
  <1>2. members' \in [Clients -> SUBSET Clients] /\ channel' \in [Names -> Clients \cup {NoSet}]
    BY <1>t DEF ChannelsTypes
  <1>3. Registered' \subseteq Registered
    BY <1>1 DEF Registered
  <1>4. IsFiniteSet(Registered')
    BY <1>3, FS_Subset DEF ChannelsInv, FiniteInv
  <1>5. \A x \in Clients : IsFiniteSet(members'[x])
    BY <1>1, FS_Subset DEF ChannelsInv, FiniteInv
  <1>6. RegisteredInv'
    <2> SUFFICES ASSUME NEW m \in Registered'
                 PROVE  /\ ChannelOf[channel'[m]] = m /\ members'[channel'[m]] # {}
                        /\ \A d \in members'[channel'[m]] : ChannelOf[d] = m /\ peer'[d] \in {"open", "broken"}
      BY DEF RegisteredInv
    <2>1. m \in Names /\ m \in Registered /\ channel'[m] = channel[m] /\ channel[m] \in Clients
      BY <1>t, <1>1, <1>3 DEF Registered, ChannelsTypes
    <2>2. /\ ChannelOf[channel[m]] = m /\ members[channel[m]] # {}
          /\ \A d \in members[channel[m]] : ChannelOf[d] = m /\ peer[d] \in {"open", "broken"}
      BY <2>1 DEF ChannelsInv, RegisteredInv
    <2>3. members'[channel[m]] # {}
      <3>1. CASE channel[m] = o
        <4>1. m = n
          BY <2>2, <3>1
        <4>2. rest # {}
          BY <4>1 DEF Registered
        <4> QED BY <1>1, <3>1, <4>2
      <3>2. CASE channel[m] # o
        BY <1>1, <2>1, <2>2, <3>2
      <3> QED BY <3>1, <3>2
    <2>4. ASSUME NEW d \in members'[channel'[m]] PROVE ChannelOf[d] = m /\ peer'[d] \in {"open", "broken"}
      <3>1. d \in members[channel[m]] /\ d \in Clients
        BY <1>1, <2>1, <2>4
      <3>2. peer'[d] = peer[d]
        BY <2>4, <3>1
      <3> QED BY <2>2, <3>1, <3>2
    <2> QED BY <2>1, <2>2, <2>3, <2>4
  <1>7. NewInv'
    <2> SUFFICES ASSUME NEW d \in Clients, peer'[d] = "new"
                 PROVE  members'[d] = {} /\ \A x \in Clients : d \notin members'[x]
      BY DEF NewInv
    <2>1. members[d] = {} /\ \A x \in Clients : d \notin members[x]
      BY DEF ChannelsInv, NewInv
    <2> QED BY <1>1, <2>1
  <1> QED BY <1>2, <1>4, <1>5, <1>6, <1>7

\* The one that leaves is in no other set, and whoever is open stays in its own.
LEMMA LeaveStep == \A c \in Clients : ChannelsInv /\ Leave(c) => ChannelsInv'
  <1> SUFFICES ASSUME NEW c \in Clients, ChannelsInv, Leave(c) PROVE ChannelsInv'
    OBVIOUS
  <1> DEFINE n == ChannelOf[c]
             o == channel[n]
  <1>t. ChannelsTypes /\ n \in Names /\ NoSet \notin Clients
    BY ChannelsConfig DEF ChannelsInv, Names
  <1>1. /\ peer[c] \in {"open", "broken"} /\ peer' = [peer EXCEPT ![c] = "closed"]
        /\ UNCHANGED <<coro, holder, late>>
    BY DEF Leave
  <1>2. /\ \A d \in Clients : peer'[d] = IF d = c THEN "closed" ELSE peer[d]
        /\ peer' \in [Clients -> {"new", "open", "broken", "closed"}]
    BY <1>t, <1>1 DEF ChannelsTypes
  <1>c. TodoInv' /\ DeadInv' /\ HolderInv' /\ BroadcastInv' /\ (\A t \in Coroutines : IsFiniteSet(coro'[t].began))
    BY EndpointKeepsCoroutines
  <1>3. CASE o = NoSet
    <2>1. UNCHANGED <<members, channel>> /\ Registered' = Registered
      BY <1>3 DEF Leave, Registered
    <2>2. ChannelsTypes' /\ FiniteInv' /\ NewInv'
      BY <1>t, <1>1, <1>2, <1>c, <2>1 DEF ChannelsInv, ChannelsTypes, FiniteInv, NewInv
    <2>3. RegisteredInv'
      <3>1. ASSUME NEW m \in Registered, NEW d \in members[channel[m]] PROVE peer'[d] \in {"open", "broken"}
        <4>1. d \in Clients /\ ChannelOf[d] = m /\ peer[d] \in {"open", "broken"}
          BY <1>t, <3>1 DEF ChannelsInv, RegisteredInv, ChannelsTypes, Registered
        <4>2. d # c
          BY <1>3, <4>1 DEF Registered
        <4> QED BY <1>2, <4>1, <4>2
      <3> QED BY <2>1, <3>1 DEF ChannelsInv, RegisteredInv
    <2>4. LiveInv'
      BY <1>1, <1>2, <2>1 DEF ChannelsInv, LiveInv
    <2> QED BY <1>c, <2>2, <2>3, <2>4 DEF ChannelsInv
  <1>4. CASE o # NoSet
    <2> DEFINE rest == members[o] \ {c}
    <2>1. /\ o \in Clients /\ n \in Registered /\ ChannelOf[o] = n
          /\ \A d \in members[o] : ChannelOf[d] = n
      BY <1>t, <1>4 DEF ChannelsInv, ChannelsTypes, RegisteredInv, Registered
    <2>2. /\ members' = [members EXCEPT ![o] = rest]
          /\ channel' = IF rest = {} THEN [channel EXCEPT ![n] = NoSet] ELSE channel
      <3>1. members[o] \subseteq {c} <=> rest = {}
        OBVIOUS
      <3> QED BY <1>4, <3>1 DEF Leave
    <2> HIDE DEF o, n
    <2>3. /\ \A x \in Clients : members'[x] = IF x = o THEN rest ELSE members[x]
          /\ \A m \in Names : channel'[m] = IF m = n /\ rest = {} THEN NoSet ELSE channel[m]
      BY <1>t, <2>1, <2>2 DEF ChannelsTypes
    <2>4. ASSUME NEW m \in Registered' PROVE c \notin members'[channel'[m]]
      <3>1. m \in Names /\ m \in Registered /\ channel'[m] = channel[m] /\ channel[m] \in Clients
        BY <1>t, <2>3 DEF Registered, ChannelsTypes
      <3>2. CASE m = n
        BY <2>1, <2>3, <3>1, <3>2 DEF o
      <3>3. CASE m # n
        <4>1. c \notin members[channel[m]] /\ channel[m] # o
          BY <2>1, <3>1, <3>3 DEF ChannelsInv, RegisteredInv, n
        <4> QED BY <2>3, <3>1, <4>1
      <3> QED BY <3>2, <3>3
    <2>5. /\ members' \in [Clients -> SUBSET Clients] /\ channel' \in [Names -> Clients \cup {NoSet}]
          /\ IsFiniteSet(Registered') /\ (\A x \in Clients : IsFiniteSet(members'[x]))
          /\ RegisteredInv' /\ NewInv'
      <3>1. channel' \in {channel, [channel EXCEPT ![ChannelOf[o]] = NoSet]}
        BY <2>1, <2>2
      <3>2. rest = {} => channel'[ChannelOf[o]] = NoSet
        BY <1>t, <2>1, <2>3
      <3>3. \A d \in Clients : peer'[d] # peer[d] => d = c
        BY <1>2
      <3>4. rest \in SUBSET members[o]
        OBVIOUS
      <3>5. \A d \in Clients : peer[d] # "new" => peer'[d] # "new"
        BY <1>2
      <3>6. \A d \in Clients : peer'[d] # peer[d] => \A m \in Registered' : d \notin members'[channel'[m]]
        BY <2>4, <3>3
      <3> HIDE DEF rest
      <3> QED BY <1>2, <2>1, <2>2, <3>1, <3>2, <3>4, <3>5, <3>6, SetShrinks
    <2>6. LiveInv'
      <3> SUFFICES ASSUME ~ late
                   PROVE  /\ \A x \in Clients : members'[x] # {} => channel'[ChannelOf[x]] = x
                          /\ \A d \in Clients : peer'[d] = "open" => /\ channel'[ChannelOf[d]] # NoSet
                                                                      /\ d \in members'[channel'[ChannelOf[d]]]
        BY <1>1 DEF LiveInv
      <3>1. /\ \A x \in Clients : members[x] # {} => channel[ChannelOf[x]] = x
            /\ \A d \in Clients : peer[d] = "open" => /\ channel[ChannelOf[d]] # NoSet
                                                       /\ d \in members[channel[ChannelOf[d]]]
        BY DEF ChannelsInv, LiveInv
      <3>2. \A d \in Clients : ChannelOf[d] \in Names
        BY DEF Names
      <3>3. channel[n] = o
        BY DEF o
      <3>4. ASSUME NEW x \in Clients, members'[x] # {} PROVE channel'[ChannelOf[x]] = x
        <4>1. channel[ChannelOf[x]] = x
          BY <2>3, <3>1, <3>4
        <4>2. ~ (ChannelOf[x] = n /\ rest = {})
          BY <2>3, <3>3, <3>4, <4>1
        <4> QED BY <2>3, <3>2, <4>1, <4>2
      <3>5. ASSUME NEW d \in Clients, peer'[d] = "open"
            PROVE  channel'[ChannelOf[d]] # NoSet /\ d \in members'[channel'[ChannelOf[d]]]
        <4>1. d # c /\ channel[ChannelOf[d]] # NoSet /\ d \in members[channel[ChannelOf[d]]]
          BY <1>2, <3>1, <3>5
        <4>2. ChannelOf[d] = n => d \in rest
          BY <3>3, <4>1
        <4>3. channel'[ChannelOf[d]] = channel[ChannelOf[d]] /\ channel[ChannelOf[d]] \in Clients
          BY <1>t, <2>3, <3>2, <4>1, <4>2 DEF ChannelsTypes
        <4> QED BY <2>3, <4>1, <4>3
      <3> QED BY <3>4, <3>5
    <2>7. ChannelsTypes' /\ FiniteInv'
      BY <1>t, <1>1, <1>2, <1>c, <2>5 DEF ChannelsTypes, FiniteInv
    <2> QED BY <1>c, <2>5, <2>6, <2>7 DEF ChannelsInv
  <1> QED BY <1>3, <1>4

\* A coroutine that runs changes only its own record, and no other is between two steps
\* of its run.
LEMMA CoroutineChanges ==
  ASSUME ChannelsInv, NEW t \in Coroutines, NEW r \in CoroRecords, UNCHANGED peer,
         coro' = [coro EXCEPT ![t] = r], holder \in {NoClient, t}, holder' \in {NoClient, t},
         IsFiniteSet(r.began),
         \A i \in 1 .. Len(r.todo) : ChannelOf[r.todo[i].object] = r.todo[i].name,
         r.at \in {"next", "await", "tidy"} => r.todo # << >>,
         \A c \in r.dead : peer[c] \in {"broken", "closed"},
         r.at = "await" => r.to \in Clients /\ peer[r.to] # "new",
         r.at \in {"enter", "next", "tidy"} => holder' = t,
         t # Heart => /\ Len(r.todo) <= 1
                      /\ r.at = "enter" /\ r.todo # << >> => members'[Head(r.todo).object] # {}
                      /\ r.at \in {"next", "await"} => r.began # {}
                      /\ r.at = "tidy" => members'[Head(r.todo).object] # {}
  PROVE  /\ TodoInv' /\ DeadInv' /\ HolderInv' /\ BroadcastInv' /\ (\A u \in Coroutines : IsFiniteSet(coro'[u].began))
         /\ coro' \in [Coroutines -> CoroRecords] /\ holder' \in Coroutines \cup {NoClient}
  <1>t. ChannelsTypes
    BY DEF ChannelsInv
  <1>1. /\ coro'[t] = r /\ \A u \in Coroutines : u # t => coro'[u] = coro[u]
        /\ coro' \in [Coroutines -> CoroRecords] /\ holder' \in Coroutines \cup {NoClient}
    BY <1>t DEF ChannelsTypes
  <1>2. \A u \in Coroutines : u # t => coro[u].at \notin {"enter", "next", "tidy"}
    BY HolderFacts
  <1>3. TodoInv'
    BY <1>1 DEF ChannelsInv, TodoInv
  <1>4. DeadInv'
    BY <1>1 DEF ChannelsInv, DeadInv
  <1>5. HolderInv'
    BY <1>1, <1>2 DEF HolderInv
  <1>6. BroadcastInv'
    <2> SUFFICES ASSUME NEW b \in Broadcasters
                 PROVE  /\ Len(coro'[b].todo) <= 1
                        /\ coro'[b].at = "enter" /\ coro'[b].todo # << >> => members'[Head(coro'[b].todo).object] # {}
                        /\ coro'[b].at \in {"next", "await"} => coro'[b].began # {}
                        /\ coro'[b].at = "tidy" => members'[Head(coro'[b].todo).object] # {}
      BY DEF BroadcastInv, Object
    <2>1. b # Heart /\ b \in Coroutines
      BY ChannelsConfig DEF Coroutines
    <2>2. CASE b = t
      BY <1>1, <2>1, <2>2
    <2>3. CASE b # t
      <3>1. coro'[b] = coro[b] /\ coro[b].at \notin {"enter", "tidy"}
        BY <1>1, <1>2, <2>1, <2>3
      <3>2. Len(coro[b].todo) <= 1 /\ (coro[b].at \in {"next", "await"} => coro[b].began # {})
        BY DEF ChannelsInv, BroadcastInv
      <3> QED BY <3>1, <3>2
    <2> QED BY <2>2, <2>3
  <1>7. \A u \in Coroutines : IsFiniteSet(coro'[u].began)
    BY <1>1 DEF ChannelsInv, FiniteInv
  <1> QED BY <1>1, <1>3, <1>4, <1>5, <1>6, <1>7

\* A step that leaves the sets, the channels and the connections alone.
LEMMA CoroutineOnly ==
  ASSUME ChannelsInv, UNCHANGED <<members, channel, peer, late>>,
         TodoInv', DeadInv', HolderInv', BroadcastInv', \A u \in Coroutines : IsFiniteSet(coro'[u].began),
         coro' \in [Coroutines -> CoroRecords], holder' \in Coroutines \cup {NoClient}
  PROVE  ChannelsInv'
  <1>1. Registered' = Registered
    BY DEF Registered
  <1>2. ChannelsTypes' /\ FiniteInv' /\ NewInv' /\ LiveInv'
    BY <1>1 DEF ChannelsInv, ChannelsTypes, FiniteInv, NewInv, LiveInv
  <1>3. RegisteredInv'
    BY <1>1 DEF ChannelsInv, RegisteredInv
  <1> QED BY <1>2, <1>3 DEF ChannelsInv

\* A request begins to broadcast to a channel that somebody is in.
LEMMA BroadcastStep == \A b \in Broadcasters : ChannelsInv /\ Broadcast(b) => ChannelsInv'
  <1> SUFFICES ASSUME NEW b \in Broadcasters, ChannelsInv, Broadcast(b) PROVE ChannelsInv'
    OBVIOUS
  <1> DEFINE n == ToChannel[b]
             e == [name |-> n, object |-> channel[n]]
             r == Begin(<<e>>)
  <1>1. /\ holder = NoClient /\ channel[n] # NoSet /\ n \in Names /\ b \in Coroutines
        /\ coro' = [coro EXCEPT ![b] = r] /\ holder' = b /\ UNCHANGED <<members, channel, peer, late>>
    BY ChannelsConfig DEF Broadcast, Coroutines
  <1>2. channel[n] \in Clients /\ ChannelOf[channel[n]] = n /\ members[channel[n]] # {}
    BY <1>1 DEF ChannelsInv, ChannelsTypes, RegisteredInv, Registered
  <1>3. e \in Entries /\ e.object = channel[n] /\ e.name = n
    BY <1>1, <1>2 DEF Entries
  <1> HIDE DEF e
  <1>4. <<e>> \in Seq(Entries) /\ Len(<<e>>) = 1 /\ <<e>>[1] = e /\ Head(<<e>>) = e
    BY <1>3
  <1>5. r \in CoroRecords /\ r.at = "enter" /\ r.todo = <<e>> /\ r.began = {} /\ r.dead = {}
    BY <1>4, IdleFacts
  <1> HIDE DEF r
  <1>6. \A i \in 1 .. Len(r.todo) : ChannelOf[r.todo[i].object] = r.todo[i].name
    BY <1>2, <1>3, <1>4, <1>5
  <1>7. IsFiniteSet(r.began)
    BY <1>5, FS_EmptySet
  <1>8. Len(r.todo) <= 1 /\ members'[Head(r.todo).object] # {}
    BY <1>1, <1>2, <1>3, <1>4, <1>5
  <1>9. /\ TodoInv' /\ DeadInv' /\ HolderInv' /\ BroadcastInv' /\ (\A u \in Coroutines : IsFiniteSet(coro'[u].began))
        /\ coro' \in [Coroutines -> CoroRecords] /\ holder' \in Coroutines \cup {NoClient}
    BY <1>1, <1>5, <1>6, <1>7, <1>8, CoroutineChanges
  <1> QED BY <1>1, <1>9, CoroutineOnly

\* The heartbeat lists the channels with their sets.
LEMMA BeatStep == ChannelsInv /\ Beat => ChannelsInv'
  <1> SUFFICES ASSUME ChannelsInv, Beat PROVE ChannelsInv'
    OBVIOUS
  <1> DEFINE E == {[name |-> n, object |-> channel[n]] : n \in {m \in Names : channel[m] # NoSet}}
  <1>1. PICK todo \in SetToSeqs(E) : coro' = [coro EXCEPT ![Heart] = Begin(todo)]
    BY DEF Beat
  <1>2. /\ holder = NoClient /\ holder' = Heart /\ UNCHANGED <<members, channel, peer, late>> /\ Heart \in Coroutines
    BY DEF Beat, Coroutines
  <1>3. \A e \in E : e \in Entries /\ ChannelOf[e.object] = e.name
    <2> SUFFICES ASSUME NEW n \in Registered
                 PROVE  LET e == [name |-> n, object |-> channel[n]]
                        IN  e \in Entries /\ ChannelOf[e.object] = e.name
      BY DEF Registered
    <2>1. n \in Names /\ channel[n] \in Clients /\ ChannelOf[channel[n]] = n
      BY DEF ChannelsInv, ChannelsTypes, RegisteredInv, Registered
    <2> QED BY <2>1 DEF Entries
  <1>4. IsFiniteSet(E)
    <2> DEFINE f == [n \in Registered |-> [name |-> n, object |-> channel[n]]]
    <2>1. f \in Surjection(Registered, E)
      BY DEF Surjection, Registered
    <2> HIDE DEF f, E
    <2> QED BY <2>1, FS_Surjection DEF ChannelsInv, FiniteInv
  <1> HIDE DEF E
  <1>5. Cardinality(E) \in Nat
    BY <1>4, FS_CardinalityType
  <1>6. todo \in [1 .. Cardinality(E) -> E]
    BY DEF SetToSeqs
  <1>7. todo \in Seq(Entries) /\ \A i \in 1 .. Len(todo) : ChannelOf[todo[i].object] = todo[i].name
    BY <1>3, <1>5, <1>6
  <1> DEFINE r == Begin(todo)
  <1>8. r \in CoroRecords /\ r.at = "enter" /\ r.todo = todo /\ r.began = {} /\ r.dead = {}
    BY <1>7, IdleFacts
  <1>9. coro' = [coro EXCEPT ![Heart] = r]
    BY <1>1
  <1> HIDE DEF r
  <1>10. IsFiniteSet(r.began)
    BY <1>8, FS_EmptySet
  <1>11. /\ TodoInv' /\ DeadInv' /\ HolderInv' /\ BroadcastInv' /\ (\A u \in Coroutines : IsFiniteSet(coro'[u].began))
         /\ coro' \in [Coroutines -> CoroRecords] /\ holder' \in Coroutines \cup {NoClient}
    BY <1>2, <1>7, <1>8, <1>9, <1>10, CoroutineChanges
  <1> QED BY <1>2, <1>11, CoroutineOnly

\* A coroutine that ends knows nothing any more.
LEMMA EndsClean ==
  ASSUME ChannelsInv, NEW t \in Coroutines, holder = t, UNCHANGED peer, holder' = NoClient,
         NEW at \in {"idle", "done"}, coro' = [coro EXCEPT ![t] = [Idle EXCEPT !.at = at]]
  PROVE  /\ TodoInv' /\ DeadInv' /\ HolderInv' /\ BroadcastInv' /\ (\A u \in Coroutines : IsFiniteSet(coro'[u].began))
         /\ coro' \in [Coroutines -> CoroRecords] /\ holder' \in Coroutines \cup {NoClient}
  <1> DEFINE r == [Idle EXCEPT !.at = at]
  <1>1. << >> \in Seq(Entries) /\ Len(<< >>) = 0
    OBVIOUS
  <1>2. r \in CoroRecords /\ r.at = at /\ r.todo = << >> /\ r.began = {} /\ r.dead = {}
    BY <1>1 DEF Idle, CoroRecords
  <1>3. coro' = [coro EXCEPT ![t] = r]
    OBVIOUS
  <1> HIDE DEF r
  <1>4. IsFiniteSet(r.began) /\ Len(r.todo) <= 1
        /\ \A i \in 1 .. Len(r.todo) : ChannelOf[r.todo[i].object] = r.todo[i].name
    BY <1>1, <1>2, FS_EmptySet
  <1>5. r.at \notin {"enter", "next", "await", "tidy"} /\ \A c \in r.dead : peer[c] \in {"broken", "closed"}
    BY <1>2
  <1> QED BY <1>2, <1>3, <1>4, <1>5, CoroutineChanges

\* The next channel of the list: a broadcast finds somebody in it.
LEMMA EnterStep == \A t \in Coroutines : ChannelsInv /\ Enter(t) => ChannelsInv'
  <1> SUFFICES ASSUME NEW t \in Coroutines, ChannelsInv, Enter(t) PROVE ChannelsInv'
    OBVIOUS
  <1>1. holder = t /\ coro[t].at = "enter" /\ UNCHANGED <<members, channel, peer, late>>
    BY DEF Enter
  <1>2. CASE coro[t].todo = << >>
    <2> DEFINE at == IF t = Heart THEN "idle" ELSE "done"
    <2>1. at \in {"idle", "done"} /\ coro' = [coro EXCEPT ![t] = [Idle EXCEPT !.at = at]] /\ holder' = NoClient
      BY <1>2 DEF Enter
    <2> HIDE DEF at
    <2> QED BY <1>1, <2>1, EndsClean, CoroutineOnly
  <1>3. CASE coro[t].todo # << >>
    <2> DEFINE r == [coro[t] EXCEPT !.at = "next", !.began = members[Object(t)], !.visited = {}, !.dead = {}]
    <2>1. coro' = [coro EXCEPT ![t] = r] /\ holder' = t
      BY <1>1, <1>3 DEF Enter
    <2>2. coro[t] \in CoroRecords /\ members[Object(t)] \in SUBSET Clients
      BY <1>3, EntryFacts DEF ChannelsInv, ChannelsTypes
    <2>3. /\ r \in CoroRecords /\ r.at = "next" /\ r.began = members[Object(t)] /\ r.dead = {}
          /\ r.todo = coro[t].todo
      BY <2>2 DEF CoroRecords
    <2> HIDE DEF r
    <2>4. IsFiniteSet(r.began)
      BY <1>3, <2>3, EntryFacts DEF ChannelsInv, FiniteInv
    <2>5. \A i \in 1 .. Len(r.todo) : ChannelOf[r.todo[i].object] = r.todo[i].name
      BY <2>3 DEF ChannelsInv, TodoInv
    <2>6. t # Heart => Len(r.todo) <= 1 /\ r.began # {}
      BY <1>1, <1>3, <2>3 DEF ChannelsInv, BroadcastInv, Coroutines
    <2>7. /\ TodoInv' /\ DeadInv' /\ HolderInv' /\ BroadcastInv' /\ (\A u \in Coroutines : IsFiniteSet(coro'[u].began))
          /\ coro' \in [Coroutines -> CoroRecords] /\ holder' \in Coroutines \cup {NoClient}
      BY <1>1, <1>3, <2>1, <2>3, <2>4, <2>5, <2>6, CoroutineChanges
    <2> QED BY <1>1, <2>7, CoroutineOnly
  <1> QED BY <1>2, <1>3

\* An iteration raises.
LEMMA NextRaisesStep == \A t \in Coroutines : ChannelsInv /\ NextRaises(t) => ChannelsInv'
  <1> SUFFICES ASSUME NEW t \in Coroutines, ChannelsInv, NextRaises(t) PROVE ChannelsInv'
    OBVIOUS
  <1>1. /\ holder = t /\ holder' = NoClient /\ coro' = [coro EXCEPT ![t] = [Idle EXCEPT !.at = "done"]]
        /\ UNCHANGED <<members, channel, peer, late>>
    BY DEF NextRaises, Raise
  <1> QED BY <1>1, EndsClean, CoroutineOnly

\* The next connection is sent to: it has come already.
LEMMA NextSendsStep == \A t \in Coroutines : ChannelsInv /\ NextSends(t) => ChannelsInv'
  <1> SUFFICES ASSUME NEW t \in Coroutines, ChannelsInv, NextSends(t) PROVE ChannelsInv'
    OBVIOUS
  <1>1. /\ holder = t /\ coro[t].at = "next" /\ holder' = NoClient /\ UNCHANGED <<members, channel, peer, late>>
        /\ coro[t].todo # << >> /\ coro[t] \in CoroRecords
    BY HolderFacts DEF NextSends, ChannelsInv, TodoInv
  <1>2. PICK c \in members[Object(t)] \ coro[t].visited :
          coro' = [coro EXCEPT ![t] = [coro[t] EXCEPT !.at = "await", !.to = c, !.visited = coro[t].visited \cup {c}]]
    BY DEF NextSends
  <1>3. c \in Clients /\ peer[c] # "new"
    BY <1>1, EntryFacts DEF ChannelsInv, ChannelsTypes, NewInv
  <1> DEFINE r == [coro[t] EXCEPT !.at = "await", !.to = c, !.visited = coro[t].visited \cup {c}]
  <1>4. coro' = [coro EXCEPT ![t] = r]
    BY <1>2
  <1>5. /\ r \in CoroRecords /\ r.at = "await" /\ r.to = c /\ r.todo = coro[t].todo /\ r.began = coro[t].began
        /\ r.dead = coro[t].dead
    BY <1>1, <1>3 DEF CoroRecords
  <1> HIDE DEF r
  <1>6. /\ IsFiniteSet(r.began) /\ \A d \in r.dead : peer[d] \in {"broken", "closed"}
        /\ \A i \in 1 .. Len(r.todo) : ChannelOf[r.todo[i].object] = r.todo[i].name
    BY <1>5 DEF ChannelsInv, FiniteInv, DeadInv, TodoInv
  <1>7. t # Heart => Len(r.todo) <= 1 /\ r.began # {}
    BY <1>1, <1>5 DEF ChannelsInv, BroadcastInv, Coroutines
  <1>8. /\ TodoInv' /\ DeadInv' /\ HolderInv' /\ BroadcastInv' /\ (\A u \in Coroutines : IsFiniteSet(coro'[u].began))
        /\ coro' \in [Coroutines -> CoroRecords] /\ holder' \in Coroutines \cup {NoClient}
    BY <1>1, <1>3, <1>4, <1>5, <1>6, <1>7, CoroutineChanges
  <1> QED BY <1>1, <1>8, CoroutineOnly

\* An iteration ends with as many in the set as when it began, so not with none.
LEMMA NextEndsStep == \A t \in Coroutines : ChannelsInv /\ NextEnds(t) => ChannelsInv'
  <1> SUFFICES ASSUME NEW t \in Coroutines, ChannelsInv, NextEnds(t) PROVE ChannelsInv'
    OBVIOUS
  <1>1. /\ holder = t /\ coro[t].at = "next" /\ holder' = holder /\ UNCHANGED <<members, channel, peer, late>>
        /\ coro[t].todo # << >> /\ coro[t] \in CoroRecords
    BY HolderFacts DEF NextEnds, ChannelsInv, TodoInv
  <1> DEFINE r == [coro[t] EXCEPT !.at = "tidy"]
  <1>2. coro' = [coro EXCEPT ![t] = r]
    BY DEF NextEnds
  <1>3. /\ r \in CoroRecords /\ r.at = "tidy" /\ r.todo = coro[t].todo /\ r.began = coro[t].began
        /\ r.dead = coro[t].dead
    BY <1>1 DEF CoroRecords
  <1> HIDE DEF r
  <1>4. /\ IsFiniteSet(r.began) /\ \A d \in r.dead : peer[d] \in {"broken", "closed"}
        /\ \A i \in 1 .. Len(r.todo) : ChannelOf[r.todo[i].object] = r.todo[i].name
    BY <1>3 DEF ChannelsInv, FiniteInv, DeadInv, TodoInv
  <1>5. t # Heart => Len(r.todo) <= 1 /\ members[Head(r.todo).object] # {}
    <2>1. t # Heart => Len(r.todo) <= 1 /\ r.began # {}
      BY <1>1, <1>3 DEF ChannelsInv, BroadcastInv, Coroutines
    <2>2. Cardinality(members[Object(t)]) = Cardinality(r.began)
      BY <1>3 DEF NextEnds, Resized
    <2>3. r.began # {} => Cardinality(r.began) # 0
      BY <1>4, FS_EmptySet
    <2>4. members[Object(t)] = {} => Cardinality(members[Object(t)]) = 0
      BY FS_EmptySet
    <2> QED BY <1>3, <2>1, <2>2, <2>3, <2>4 DEF Object
  <1>6. /\ TodoInv' /\ DeadInv' /\ HolderInv' /\ BroadcastInv' /\ (\A u \in Coroutines : IsFiniteSet(coro'[u].began))
        /\ coro' \in [Coroutines -> CoroRecords] /\ holder' \in Coroutines \cup {NoClient}
    BY <1>1, <1>2, <1>3, <1>4, <1>5, CoroutineChanges
  <1> QED BY <1>1, <1>6, CoroutineOnly

\* A send returns: who is given up is no longer open.
LEMMA SentStep == \A t \in Coroutines : ChannelsInv /\ Sent(t) => ChannelsInv'
  <1> SUFFICES ASSUME NEW t \in Coroutines, ChannelsInv, Sent(t) PROVE ChannelsInv'
    OBVIOUS
  <1>1. /\ holder = NoClient /\ coro[t].at = "await" /\ holder' = t /\ UNCHANGED <<members, channel, peer, late>>
        /\ coro[t].todo # << >> /\ coro[t] \in CoroRecords
    BY HolderFacts DEF Sent, ChannelsInv, TodoInv
  <1>2. PICK fails \in {FALSE, peer[coro[t].to] # "open"} :
          coro' = [coro EXCEPT ![t] = [coro[t] EXCEPT !.at = "next", !.to = NoClient,
                     !.dead = IF fails THEN coro[t].dead \cup {coro[t].to} ELSE coro[t].dead]]
    BY DEF Sent
  <1> DEFINE dead == IF fails THEN coro[t].dead \cup {coro[t].to} ELSE coro[t].dead
             r == [coro[t] EXCEPT !.at = "next", !.to = NoClient, !.dead = dead]
  <1>3. dead \in SUBSET Clients /\ \A d \in dead : peer[d] \in {"broken", "closed"}
    <2>1. coro[t].to \in Clients /\ peer[coro[t].to] \in {"open", "broken", "closed"}
      BY <1>1 DEF ChannelsInv, DeadInv, ChannelsTypes
    <2>2. coro[t].dead \in SUBSET Clients /\ \A d \in coro[t].dead : peer[d] \in {"broken", "closed"}
      BY <1>1 DEF ChannelsInv, DeadInv, CoroRecords
    <2> QED BY <1>2, <2>1, <2>2
  <1>4. coro' = [coro EXCEPT ![t] = r]
    BY <1>2
  <1> HIDE DEF dead
  <1>5. r \in CoroRecords /\ r.at = "next" /\ r.todo = coro[t].todo /\ r.began = coro[t].began /\ r.dead = dead
    BY <1>1, <1>3 DEF CoroRecords
  <1> HIDE DEF r
  <1>6. /\ IsFiniteSet(r.began)
        /\ \A i \in 1 .. Len(r.todo) : ChannelOf[r.todo[i].object] = r.todo[i].name
    BY <1>5 DEF ChannelsInv, FiniteInv, TodoInv
  <1>7. t # Heart => Len(r.todo) <= 1 /\ r.began # {}
    BY <1>1, <1>5 DEF ChannelsInv, BroadcastInv, Coroutines
  <1>8. /\ TodoInv' /\ DeadInv' /\ HolderInv' /\ BroadcastInv' /\ (\A u \in Coroutines : IsFiniteSet(coro'[u].began))
        /\ coro' \in [Coroutines -> CoroRecords] /\ holder' \in Coroutines \cup {NoClient}
    BY <1>1, <1>3, <1>4, <1>5, <1>6, <1>7, CoroutineChanges
  <1> QED BY <1>1, <1>8, CoroutineOnly

\* The dead are removed; a channel goes only with its own set, unless the heartbeat is late.
LEMMA TidyStep == \A t \in Coroutines : ChannelsInv /\ Tidy(t) => ChannelsInv'
  <1> SUFFICES ASSUME NEW t \in Coroutines, ChannelsInv, Tidy(t) PROVE ChannelsInv'
    OBVIOUS
  <1> DEFINE o == Object(t)
             n == Name(t)
             rest == members[o] \ coro[t].dead
  <1>1. /\ holder = t /\ coro[t].at = "tidy" /\ UNCHANGED peer
        /\ members' = [members EXCEPT ![o] = rest]
        /\ late' = (late \/ (t = Heart /\ rest = {} /\ channel[n] # o))
    BY DEF Tidy
  <1>2. \/ rest = {} /\ channel[n] = NoSet /\ Raise(t) /\ UNCHANGED channel
        \/ /\ ~ (rest = {} /\ channel[n] = NoSet) /\ holder' = t
           /\ channel' = IF rest = {} THEN [channel EXCEPT ![n] = NoSet] ELSE channel
           /\ coro' = [coro EXCEPT ![t] = [coro[t] EXCEPT !.at = "enter", !.todo = Tail(coro[t].todo)]]
    BY <1>1 DEF Tidy
  <1>t. /\ ChannelsTypes /\ coro[t] \in CoroRecords /\ coro[t].todo # << >>
        /\ NoSet \notin Clients
    BY <1>1, HolderFacts, ChannelsConfig DEF ChannelsInv, TodoInv
  <1>3. o \in Clients /\ n \in Names /\ ChannelOf[o] = n
    BY <1>t, EntryFacts
  <1>4. /\ Tail(coro[t].todo) \in Seq(Entries) /\ Len(Tail(coro[t].todo)) = Len(coro[t].todo) - 1
        /\ \A i \in 1 .. Len(Tail(coro[t].todo)) : Tail(coro[t].todo)[i] = coro[t].todo[i + 1]
    BY <1>t, EntryFacts
  <1>5. \A d \in coro[t].dead : peer[d] \in {"broken", "closed"}
    BY DEF ChannelsInv, DeadInv
  <1>6. t # Heart => members[o] # {} /\ Len(coro[t].todo) <= 1
    BY <1>1 DEF ChannelsInv, BroadcastInv, Coroutines
  <1>c. /\ TodoInv' /\ DeadInv' /\ HolderInv' /\ BroadcastInv' /\ (\A u \in Coroutines : IsFiniteSet(coro'[u].began))
        /\ coro' \in [Coroutines -> CoroRecords] /\ holder' \in Coroutines \cup {NoClient}
    <2>1. CASE Raise(t)
      BY <1>1, <2>1, EndsClean DEF Raise
    <2>2. CASE holder' = t /\ coro' = [coro EXCEPT ![t] = [coro[t] EXCEPT !.at = "enter", !.todo = Tail(coro[t].todo)]]
      <3> DEFINE r == [coro[t] EXCEPT !.at = "enter", !.todo = Tail(coro[t].todo)]
      <3>1. coro' = [coro EXCEPT ![t] = r]
        BY <2>2
      <3>2. /\ r \in CoroRecords /\ r.at = "enter" /\ r.todo = Tail(coro[t].todo) /\ r.began = coro[t].began
            /\ r.dead = coro[t].dead
        BY <1>t, <1>4 DEF CoroRecords
      <3> HIDE DEF r
      <3>3. \A i \in 1 .. Len(r.todo) : ChannelOf[r.todo[i].object] = r.todo[i].name
        <4>1. coro[t].todo \in Seq(Entries)
          BY <1>t DEF CoroRecords
        <4>2. \A i \in 1 .. Len(coro[t].todo) : ChannelOf[coro[t].todo[i].object] = coro[t].todo[i].name
          BY DEF ChannelsInv, TodoInv
        <4>3. \A i \in 1 .. Len(Tail(coro[t].todo)) : i + 1 \in 1 .. Len(coro[t].todo)
          BY <1>4, <4>1
        <4> QED BY <1>4, <3>2, <4>2, <4>3
      <3>4. IsFiniteSet(r.began)
        BY <3>2 DEF ChannelsInv, FiniteInv
      <3>5. t # Heart => Len(r.todo) = 0 /\ r.todo = << >>
        <4> DEFINE L == Len(coro[t].todo)
                   K == Len(Tail(coro[t].todo))
        <4>1. L \in Nat /\ L >= 1 /\ K = L - 1
          BY <1>t, <1>4 DEF CoroRecords
        <4>2. t # Heart => L <= 1
          BY <1>6
        <4>3. Tail(coro[t].todo) \in Seq(Entries)
          BY <1>4
        <4>4. K = 0 => Tail(coro[t].todo) = << >>
          <5>1. \A s \in Seq(Entries) : Len(s) = 0 => s = << >>
            OBVIOUS
          <5> QED BY <4>3, <5>1
        <4> HIDE DEF L, K
        <4>5. t # Heart => K = 0
          BY <4>1, <4>2
        <4>6. Len(r.todo) = K /\ r.todo = Tail(coro[t].todo)
          BY <3>2 DEF K
        <4> QED BY <4>4, <4>5, <4>6
      <3>6. r.at = "enter" /\ holder' = t /\ holder \in {NoClient, t} /\ \A d \in r.dead : peer[d] \in {"broken", "closed"}
        BY <1>1, <1>5, <2>2, <3>2
      <3>7. t # Heart => Len(r.todo) <= 1 /\ r.todo = << >>
        BY <3>5
      <3> QED BY <1>1, <3>1, <3>2, <3>3, <3>4, <3>6, <3>7, CoroutineChanges
    <2> QED BY <1>2, <2>1, <2>2
  <1> HIDE DEF rest, o, n
  <1>7. /\ \A x \in Clients : members'[x] = IF x = o THEN rest ELSE members[x]
        /\ \A m \in Names : channel'[m] = IF m = n /\ rest = {} THEN NoSet ELSE channel[m]
    BY <1>t, <1>1, <1>2, <1>3 DEF ChannelsTypes
  <1>8. /\ members' \in [Clients -> SUBSET Clients] /\ channel' \in [Names -> Clients \cup {NoSet}]
        /\ IsFiniteSet(Registered') /\ (\A x \in Clients : IsFiniteSet(members'[x]))
        /\ RegisteredInv' /\ NewInv'
    <2>1. rest \in SUBSET members[o]
      BY DEF rest
    <2>2. channel' \in {channel, [channel EXCEPT ![ChannelOf[o]] = NoSet]} /\ (rest = {} => channel'[ChannelOf[o]] = NoSet)
      BY <1>2, <1>3, <1>7
    <2>3. peer' = peer /\ peer \in [Clients -> {"new", "open", "broken", "closed"}]
      BY <1>1, <1>t DEF ChannelsTypes
    <2> QED BY <1>1, <1>3, <2>1, <2>2, <2>3, SetShrinks
  <1>9. LiveInv'
    <2> SUFFICES ASSUME ~ late'
                 PROVE  /\ \A x \in Clients : members'[x] # {} => channel'[ChannelOf[x]] = x
                        /\ \A d \in Clients : peer[d] = "open" => /\ channel'[ChannelOf[d]] # NoSet
                                                                   /\ d \in members'[channel'[ChannelOf[d]]]
      BY <1>1 DEF LiveInv
    <2>1. /\ \A x \in Clients : members[x] # {} => channel[ChannelOf[x]] = x
          /\ \A d \in Clients : peer[d] = "open" => /\ channel[ChannelOf[d]] # NoSet
                                                     /\ d \in members[channel[ChannelOf[d]]]
      BY <1>1 DEF ChannelsInv, LiveInv
    <2>2. \A d \in Clients : ChannelOf[d] \in Names
      BY DEF Names
    <2>3. rest = {} => channel[n] = o
      BY <1>1, <1>3, <1>6, <2>1
    <2>4. ASSUME NEW x \in Clients, members'[x] # {} PROVE channel'[ChannelOf[x]] = x
      <3>1. channel[ChannelOf[x]] = x
        BY <1>7, <2>1, <2>4 DEF rest
      <3>2. ~ (ChannelOf[x] = n /\ rest = {})
        BY <1>7, <2>3, <2>4, <3>1
      <3> QED BY <1>7, <2>2, <3>1, <3>2
    <2>5. ASSUME NEW d \in Clients, peer[d] = "open"
          PROVE  channel'[ChannelOf[d]] # NoSet /\ d \in members'[channel'[ChannelOf[d]]]
      <3>1. channel[ChannelOf[d]] # NoSet /\ d \in members[channel[ChannelOf[d]]] /\ d \notin coro[t].dead
        BY <1>5, <2>1, <2>5
      <3>2. channel[ChannelOf[d]] = o => d \in rest
        BY <3>1 DEF rest
      <3>3. channel'[ChannelOf[d]] = channel[ChannelOf[d]] /\ channel[ChannelOf[d]] \in Clients
        BY <1>t, <1>7, <2>2, <2>3, <3>1, <3>2 DEF ChannelsTypes
      <3> QED BY <1>7, <3>1, <3>2, <3>3
    <2> QED BY <2>4, <2>5
  <1>10. ChannelsTypes' /\ FiniteInv'
    <2>1. late' \in BOOLEAN
      BY <1>1, <1>t DEF ChannelsTypes
    <2> QED BY <1>1, <1>t, <1>c, <1>8, <2>1 DEF ChannelsTypes, FiniteInv
  <1> QED BY <1>c, <1>8, <1>9, <1>10 DEF ChannelsInv

\* Every step keeps the sets and the channels together.
LEMMA ChannelsStep == ChannelsInv /\ [ChannelsNext]_cvars => ChannelsInv'
  <1> SUFFICES ASSUME ChannelsInv, [ChannelsNext]_cvars PROVE ChannelsInv'
    OBVIOUS
  <1>1. CASE UNCHANGED cvars
    <2>1. UNCHANGED <<members, channel, peer, coro, holder, late>>
      BY <1>1 DEF cvars
    <2>2. /\ TodoInv' /\ DeadInv' /\ HolderInv' /\ BroadcastInv' /\ (\A u \in Coroutines : IsFiniteSet(coro'[u].began))
          /\ coro' \in [Coroutines -> CoroRecords] /\ holder' \in Coroutines \cup {NoClient}
      BY <2>1 DEF ChannelsInv, TodoInv, DeadInv, HolderInv, BroadcastInv, Object, FiniteInv, ChannelsTypes
    <2> QED BY <2>1, <2>2, CoroutineOnly
  <1>2. CASE \E c \in Clients : Join(c) \/ Break(c) \/ Leave(c)
    BY <1>2, JoinStep, BreakStep, LeaveStep
  <1>3. CASE \E b \in Broadcasters : Broadcast(b)
    BY <1>3, BroadcastStep
  <1>4. CASE Beat
    BY <1>4, BeatStep
  <1>5. CASE \E t \in Coroutines :
               Enter(t) \/ NextRaises(t) \/ NextSends(t) \/ NextEnds(t) \/ Sent(t) \/ Tidy(t)
    BY <1>5, EnterStep, NextRaisesStep, NextSendsStep, NextEndsStep, SentStep, TidyStep
  <1> QED BY <1>1, <1>2, <1>3, <1>4, <1>5 DEF ChannelsNext, Coroutines

\* Whoever is connected is in the set of its channel, for any number of connections
\* and requests, until the heartbeat comes late; no channel keeps one that has left.
THEOREM ConnectedAreKept == ChannelsSpec => []NobodyLost
  <1>1. ChannelsInv => NobodyLost
    <2> SUFFICES ASSUME ChannelsInv, NEW c \in Clients
                 PROVE  LET o == channel[ChannelOf[c]]
                        IN  /\ peer[c] = "open" /\ ~ late => o # NoSet /\ c \in members[o]
                            /\ o # NoSet /\ c \in members[o] => peer[c] \in {"open", "broken"}
      BY DEF NobodyLost
    <2>1. ChannelOf[c] \in Names
      BY DEF Names
    <2>2. channel[ChannelOf[c]] # NoSet /\ c \in members[channel[ChannelOf[c]]] => peer[c] \in {"open", "broken"}
      BY <2>1 DEF ChannelsInv, RegisteredInv, Registered
    <2> QED BY <2>2 DEF ChannelsInv, LiveInv
  <1> QED BY <1>1, ChannelsInitInv, ChannelsStep, PTL DEF ChannelsSpec

-----------------------------------------------------------------------------
(* EtherealArchive.  An ingestion has what it was to fetch of the series   *)
(* behind it in the archive; the files of a series span disjoint months,   *)
(* each what the archive had once.                                         *)

\* A nonempty set of numbers has a least element, and one below a bound a greatest.
LEMMA LeastOf ==
  ASSUME NEW T \in SUBSET Nat, T # {}
  PROVE  \E x \in T : \A y \in T : x <= y
  <1> DEFINE R == OpToRel(<, Nat)
  <1>1. IsWellFoundedOn(R, Nat)
    BY NatLessThanWellFounded
  <1>2. \A x, y \in Nat : <<y, x>> \in R <=> y < x
    BY DEF OpToRel
  <1> HIDE DEF R
  <1>3. PICK x \in T : \A y \in T : ~ (<<y, x>> \in R)
    BY <1>1, WFMin
  <1>4. ASSUME NEW y \in T PROVE x <= y
    <2>1. x \in Nat /\ y \in Nat /\ ~ (y < x)
      BY <1>2, <1>3
    <2> QED BY <2>1
  <1> QED BY <1>4

LEMMA GreatestOf ==
  ASSUME NEW n \in Nat, NEW T \in SUBSET (1 .. n), T # {}
  PROVE  \E x \in T : \A y \in T : y <= x
  <1> DEFINE U == {n - x : x \in T}
  <1>0. \A x \in T : n - x \in Nat
    OBVIOUS
  <1>1. U \in SUBSET Nat /\ U # {}
    BY <1>0
  <1>2. PICK u \in U : \A y \in U : u <= y
    BY <1>1, LeastOf
  <1>3. PICK x \in T : u = n - x
    BY <1>2
  <1>4. \A y \in T : u <= n - y
    BY <1>2
  <1> HIDE DEF U
  <1>5. ASSUME NEW y \in T PROVE y <= x
    <2>1. n - x <= n - y /\ x \in Nat /\ y \in Nat
      BY <1>3, <1>4
    <2> QED BY <2>1
  <1> QED BY <1>5

\* What names a file is in it, and nothing of it lies outside.
LEMMA SpanFacts ==
  ASSUME NEW f \in SUBSET (1 .. Months), f # {}
  PROVE  /\ Min(f) \in f /\ Max(f) \in f
         /\ \A m \in f : Min(f) <= m /\ m <= Max(f)
  <1>1. Months \in Nat /\ f \in SUBSET Nat
    BY ArchiveConfig
  <1>2. \E x \in f : \A y \in f : x <= y
    BY <1>1, LeastOf
  <1>3. \E x \in f : \A y \in f : x >= y
    <2>1. PICK x \in f : \A y \in f : y <= x
      BY <1>1, GreatestOf
    <2>2. \A y \in f : x >= y
      BY <1>1, <2>1
    <2> QED BY <2>2
  <1>4. Min(f) \in f /\ \A y \in f : Min(f) <= y
    BY <1>2 DEF Min
  <1>5. Max(f) \in f /\ \A y \in f : Max(f) >= y
    BY <1>3 DEF Max
  <1>6. \A y \in f : y <= Max(f)
    BY <1>1, <1>5
  <1> QED BY <1>4, <1>5, <1>6

BarSet == {Bars[i] : i \in 1 .. Len(Bars)}

Calendar == [SeriesSet -> SUBSET (1 .. Months)]

CommandRecords ==
  [pc : {"none", "fetch", "ingested", "convert", "converted", "raised"}, from : Nat, to : Nat, left : Seq(SeriesSet),
   month : Nat, got : SUBSET (1 .. Months), ok : BOOLEAN, had : SUBSET (SeriesSet \X (1 .. Months))]

ArchiveTypes ==
  /\ today \in 1 .. Months
  /\ published \in Calendar /\ rows \in Calendar
  /\ files \in [SeriesSet -> SUBSET (SUBSET (1 .. Months))]
  /\ cmd \in [Commands -> CommandRecords]

\* A series that is still to be worked through.
Pending(r, s) == \E i \in 1 .. Len(r.left) : r.left[i] = s

\* What was there (P) at the beginning and is asked for is fetched, archived (R) or pending.
FetchRecord(r, P, R) ==
  r.pc = "fetch" =>
    /\ r.left # << >> /\ r.had \subseteq There(P)
    /\ r.ok => \A x \in r.had : x[2] \in r.from .. r.to =>
                 /\ Pending(r, x[1]) \/ x[2] \in R[x[1]]
                 /\ x[1] = Head(r.left) /\ x[2] < r.month => x[2] \in r.got

IngestedRecord(r, R) ==
  r.pc = "ingested" /\ r.ok => \A x \in r.had : x[2] \in r.from .. r.to => x \in There(R)

\* What was archived (R) at the beginning is in a file of the catalog (C), or pending.
ConvertRecord(r, R, C) ==
  r.pc \in {"convert", "converted"} =>
    /\ (r.left = << >>) <=> (r.pc = "converted")
    /\ r.had \subseteq There(R)
    /\ \A x \in r.had : x[1] \in BarSet => Pending(r, x[1]) \/ \E f \in C[x[1]] : x[2] \in f

FilesInv ==
  \A s \in SeriesSet :
    /\ \A f \in files[s] : f # {} /\ f \subseteq rows[s]
    /\ \A f, g \in files[s] : f # g => ~ (Min(f) <= Max(g) /\ Min(g) <= Max(f))

ArchiveInv ==
  /\ ArchiveTypes /\ FilesInv
  /\ \A c \in Commands : /\ FetchRecord(cmd[c], published, rows) /\ IngestedRecord(cmd[c], rows)
                          /\ ConvertRecord(cmd[c], rows, files)

\* The series.
LEMMA SeriesFacts ==
  /\ Bars \in Seq(SeriesSet) /\ Series \in Seq(SeriesSet) /\ BarSet \subseteq SeriesSet
  /\ Bars # << >> /\ Series # << >> /\ Len(Bars) \in Nat /\ Len(Bars) > 0
  /\ \A s \in SeriesSet : \E i \in 1 .. Len(Series) : Series[i] = s
  <1> DEFINE B == {Bars[i] : i \in DOMAIN Bars}
             F == {Funding[i] : i \in DOMAIN Funding}
  <1>1. Bars \in Seq(B) /\ Funding \in Seq(F) /\ Bars # << >>
    BY ArchiveConfig
  <1> HIDE DEF B, F
  <1>2. Bars \in Seq(B \cup F) /\ Funding \in Seq(B \cup F)
    BY <1>1
  <1>3. /\ Series \in Seq(B \cup F) /\ Len(Series) = Len(Bars) + Len(Funding)
        /\ Len(Bars) \in Nat /\ Len(Funding) \in Nat /\ \A i \in 1 .. Len(Bars) : Series[i] = Bars[i]
    BY <1>2 DEF Series
  <1>4. Len(Bars) > 0
    BY <1>1
  <1>5. Len(Series) \in Nat /\ \A i \in 1 .. Len(Series) : Series[i] \in SeriesSet
    BY <1>3 DEF SeriesSet
  <1>6. Series \in Seq(SeriesSet)
    BY <1>3, <1>5
  <1>7. \A i \in 1 .. Len(Bars) : i \in 1 .. Len(Series) /\ Bars[i] = Series[i]
    BY <1>3
  <1>8. \A i \in 1 .. Len(Bars) : Bars[i] \in SeriesSet
    BY <1>5, <1>7
  <1>9. Bars \in Seq(SeriesSet)
    BY <1>1, <1>8
  <1>10. Series # << >>
    BY <1>3, <1>4
  <1> QED BY <1>1, <1>3, <1>4, <1>6, <1>8, <1>9, <1>10 DEF SeriesSet, BarSet

\* At the start there is nothing.
LEMMA ArchiveInitInv == ArchiveInit => ArchiveInv
  <1> SUFFICES ASSUME ArchiveInit PROVE ArchiveInv
    OBVIOUS
  <1> USE DEF ArchiveInit
  <1>1. << >> \in Seq(SeriesSet)
    OBVIOUS
  <1>2. NoCommand \in CommandRecords
    BY <1>1 DEF NoCommand, CommandRecords
  <1>3. ArchiveTypes
    BY <1>2, ArchiveConfig DEF ArchiveTypes, Calendar
  <1>4. FilesInv
    BY DEF FilesInv
  <1>5. \A c \in Commands : cmd[c].pc = "none"
    BY DEF NoCommand
  <1> QED BY <1>3, <1>4, <1>5 DEF ArchiveInv, FetchRecord, IngestedRecord, ConvertRecord

Kept(P, P2, R, R2, C, C2) ==
  /\ \A s \in SeriesSet : P[s] \subseteq P2[s] /\ R[s] \subseteq R2[s]
  /\ \A s \in SeriesSet : \A f \in C[s] : \A m \in f : \E g \in C2[s] : m \in g

\* What a command relies on stays true while files appear, rows are added and
\* the catalog keeps what it has.
LEMMA RecordsKept ==
  ASSUME NEW r \in CommandRecords, NEW P, NEW P2, NEW R, NEW R2, NEW C, NEW C2, Kept(P, P2, R, R2, C, C2)
  PROVE  /\ FetchRecord(r, P, R) => FetchRecord(r, P2, R2)
         /\ IngestedRecord(r, R) => IngestedRecord(r, R2)
         /\ ConvertRecord(r, R, C) => ConvertRecord(r, R2, C2)
  <1>0. /\ \A x \in r.had : x[1] \in SeriesSet /\ x[2] \in 1 .. Months
        /\ \A s \in SeriesSet : P[s] \subseteq P2[s] /\ R[s] \subseteq R2[s]
        /\ \A s \in SeriesSet : \A f \in C[s] : \A m \in f : \E g \in C2[s] : m \in g
    BY DEF CommandRecords, Kept
  <1>1. There(P) \subseteq There(P2) /\ There(R) \subseteq There(R2)
    BY <1>0 DEF There
  <1>2. FetchRecord(r, P, R) => FetchRecord(r, P2, R2)
    BY <1>0, <1>1 DEF FetchRecord
  <1>3. IngestedRecord(r, R) => IngestedRecord(r, R2)
    BY <1>1 DEF IngestedRecord
  <1>4. ConvertRecord(r, R, C) => ConvertRecord(r, R2, C2)
    <2> SUFFICES ASSUME ConvertRecord(r, R, C), r.pc \in {"convert", "converted"} PROVE ConvertRecord(r, R2, C2)
      BY DEF ConvertRecord
    <2>1. ASSUME NEW x \in r.had, x[1] \in BarSet, ~ Pending(r, x[1]) PROVE \E g \in C2[x[1]] : x[2] \in g
      <3>1. PICK f \in C[x[1]] : x[2] \in f
        BY <2>1 DEF ConvertRecord
      <3> QED BY <1>0, <3>1
    <2> QED BY <1>1, <2>1 DEF ConvertRecord
  <1> QED BY <1>2, <1>3, <1>4

\* A command that runs: the others rely on what stays true, and it must show its own.
LEMMA CommandStep ==
  ASSUME ArchiveInv, NEW c \in Commands, NEW r \in CommandRecords, cmd' = [cmd EXCEPT ![c] = r],
         UNCHANGED <<today, published>>, rows' \in Calendar, \A s \in SeriesSet : rows[s] \subseteq rows'[s],
         files' \in [SeriesSet -> SUBSET (SUBSET (1 .. Months))], FilesInv',
         \A s \in SeriesSet : \A f \in files[s] : \A m \in f : \E g \in files'[s] : m \in g,
         FetchRecord(r, published, rows'), IngestedRecord(r, rows'), ConvertRecord(r, rows', files')
  PROVE  ArchiveInv'
  <1>1. ArchiveTypes'
    BY DEF ArchiveInv, ArchiveTypes
  <1>2. ASSUME NEW d \in Commands
        PROVE  /\ FetchRecord(cmd'[d], published', rows') /\ IngestedRecord(cmd'[d], rows')
               /\ ConvertRecord(cmd'[d], rows', files')
    <2>1. cmd \in [Commands -> CommandRecords] /\ published \in Calendar /\ rows \in Calendar
      BY DEF ArchiveInv, ArchiveTypes
    <2>2. CASE d = c
      <3>1. cmd'[d] = r /\ published' = published
        BY <2>1, <2>2
      <3> QED BY <3>1
    <2>3. CASE d # c
      <3>1. cmd'[d] = cmd[d] /\ cmd[d] \in CommandRecords
        BY <2>1, <2>3
      <3>2. FetchRecord(cmd[d], published, rows) /\ IngestedRecord(cmd[d], rows) /\ ConvertRecord(cmd[d], rows, files)
        BY DEF ArchiveInv
      <3>3. FetchRecord(cmd[d], published, rows') /\ IngestedRecord(cmd[d], rows') /\ ConvertRecord(cmd[d], rows', files')
        <4>1. Kept(published, published, rows, rows', files, files')
          BY DEF Kept
        <4> QED BY <3>1, <3>2, <4>1, RecordsKept
      <3> QED BY <3>1, <3>3
    <2> QED BY <2>2, <2>3
  <1> QED BY <1>1, <1>2 DEF ArchiveInv

\* A step that leaves the archive and the catalog alone.
LEMMA CommandOnly ==
  ASSUME ArchiveInv, NEW c \in Commands, NEW r \in CommandRecords, cmd' = [cmd EXCEPT ![c] = r],
         UNCHANGED <<today, published, rows, files>>,
         FetchRecord(r, published, rows), IngestedRecord(r, rows), ConvertRecord(r, rows, files)
  PROVE  ArchiveInv'
  <1>1. rows' \in Calendar /\ files' \in [SeriesSet -> SUBSET (SUBSET (1 .. Months))]
    BY DEF ArchiveInv, ArchiveTypes
  <1>2. FilesInv'
    BY DEF ArchiveInv, FilesInv
  <1> QED BY <1>1, <1>2, CommandStep

\* A month passes, a file appears.
LEMMA VenueStep == ArchiveInv /\ (NextMonth \/ \E s \in SeriesSet : Publish(s)) => ArchiveInv'
  <1> SUFFICES ASSUME ArchiveInv, NextMonth \/ \E s \in SeriesSet : Publish(s) PROVE ArchiveInv'
    OBVIOUS
  <1>t. /\ today \in 1 .. Months /\ published \in Calendar /\ rows \in Calendar /\ cmd \in [Commands -> CommandRecords]
        /\ files \in [SeriesSet -> SUBSET (SUBSET (1 .. Months))] /\ Months \in Nat
    BY ArchiveConfig DEF ArchiveInv, ArchiveTypes
  <1>1. UNCHANGED <<rows, files, cmd>>
    BY DEF NextMonth, Publish
  <1>2. /\ today' \in 1 .. Months /\ published' \in Calendar
        /\ \A s \in SeriesSet : published[s] \subseteq published'[s]
    <2>1. CASE NextMonth
      BY <1>t, <2>1 DEF NextMonth
    <2>2. ASSUME NEW s \in SeriesSet, Publish(s)
          PROVE  /\ today' \in 1 .. Months /\ published' \in Calendar
                 /\ \A u \in SeriesSet : published[u] \subseteq published'[u]
      <3>1. PICK m \in 1 .. today : published' = [published EXCEPT ![s] = @ \cup {m}]
        BY <2>2 DEF Publish
      <3>2. m \in 1 .. Months /\ today' = today
        BY <1>t, <2>2 DEF Publish
      <3> QED BY <1>t, <3>1, <3>2 DEF Calendar
    <2> QED BY <2>1, <2>2
  <1>3. ArchiveTypes'
    BY <1>t, <1>1, <1>2 DEF ArchiveTypes
  <1>4. FilesInv'
    BY <1>1 DEF ArchiveInv, FilesInv
  <1>5. ASSUME NEW c \in Commands
        PROVE  FetchRecord(cmd[c], published', rows) /\ IngestedRecord(cmd[c], rows) /\ ConvertRecord(cmd[c], rows, files)
    <2>1. FetchRecord(cmd[c], published, rows) /\ IngestedRecord(cmd[c], rows) /\ ConvertRecord(cmd[c], rows, files)
      BY DEF ArchiveInv
    <2>2. cmd[c] \in CommandRecords
      BY <1>t
    <2>3. Kept(published, published', rows, rows, files, files)
      BY <1>2 DEF Kept
    <2> QED BY <2>1, <2>2, <2>3, RecordsKept
  <1> QED BY <1>1, <1>3, <1>4, <1>5 DEF ArchiveInv

\* A command begins or ends.
LEMMA BeginEndStep == \A c \in Commands : ArchiveInv /\ (Ingest(c) \/ Convert(c) \/ End(c)) => ArchiveInv'
  <1> SUFFICES ASSUME NEW c \in Commands, ArchiveInv, Ingest(c) \/ Convert(c) \/ End(c) PROVE ArchiveInv'
    OBVIOUS
  <1>t. /\ today \in 1 .. Months /\ published \in Calendar /\ rows \in Calendar /\ Months \in Nat
    BY ArchiveConfig DEF ArchiveInv, ArchiveTypes
  <1>0. \A f : There(f) \in SUBSET (SeriesSet \X (1 .. Months))
    BY DEF There
  <1>1. CASE Ingest(c)
    <2>1. PICK from \in 1 .. today :
            cmd' = [cmd EXCEPT ![c] = [NoCommand EXCEPT !.pc = "fetch", !.from = from, !.to = today,
                                                        !.left = Series, !.month = from, !.had = There(published)]]
      BY <1>1 DEF Ingest
    <2> DEFINE r == [NoCommand EXCEPT !.pc = "fetch", !.from = from, !.to = today,
                                      !.left = Series, !.month = from, !.had = There(published)]
    <2>2. from \in Nat /\ today \in Nat /\ cmd' = [cmd EXCEPT ![c] = r] /\ UNCHANGED <<today, published, rows, files>>
      <3>1. today \in Nat /\ from \in Nat
        BY <1>t
      <3>2. UNCHANGED <<today, published, rows, files>>
        BY <1>1 DEF Ingest
      <3> QED BY <2>1, <3>1, <3>2
    <2>3. /\ r \in CommandRecords /\ r.pc = "fetch" /\ r.left = Series /\ r.had = There(published)
          /\ r.from = from /\ r.month = from
      BY <1>0, <2>2, SeriesFacts DEF NoCommand, CommandRecords
    <2> HIDE DEF r
    <2>4. \A x \in r.had : Pending(r, x[1])
      BY <2>3, SeriesFacts DEF Pending, There
    <2>5. \A x \in r.had : x[2] \in r.from .. r.to => ~ (x[2] < r.month)
      BY <2>2, <2>3
    <2>6. FetchRecord(r, published, rows) /\ IngestedRecord(r, rows) /\ ConvertRecord(r, rows, files)
      BY <2>3, <2>4, <2>5, SeriesFacts DEF FetchRecord, IngestedRecord, ConvertRecord
    <2> QED BY <2>2, <2>3, <2>6, CommandOnly
  <1>2. CASE Convert(c)
    <2> DEFINE r == [NoCommand EXCEPT !.pc = "convert", !.left = Bars, !.had = There(rows)]
    <2>1. cmd' = [cmd EXCEPT ![c] = r] /\ UNCHANGED <<today, published, rows, files>>
      BY <1>2 DEF Convert
    <2>2. r \in CommandRecords /\ r.pc = "convert" /\ r.left = Bars /\ r.had = There(rows)
      BY <1>0, SeriesFacts DEF NoCommand, CommandRecords
    <2> HIDE DEF r
    <2>3. \A x \in r.had : x[1] \in BarSet => Pending(r, x[1])
      BY <2>2 DEF Pending, BarSet
    <2>4. FetchRecord(r, published, rows) /\ IngestedRecord(r, rows) /\ ConvertRecord(r, rows, files)
      BY <2>2, <2>3, SeriesFacts DEF FetchRecord, IngestedRecord, ConvertRecord
    <2> QED BY <2>1, <2>2, <2>4, CommandOnly
  <1>3. CASE End(c)
    <2>1. cmd' = [cmd EXCEPT ![c] = NoCommand] /\ UNCHANGED <<today, published, rows, files>>
      BY <1>3 DEF End
    <2>2. NoCommand \in CommandRecords /\ NoCommand.pc = "none"
      <3>1. << >> \in Seq(SeriesSet)
        OBVIOUS
      <3> QED BY <3>1 DEF NoCommand, CommandRecords
    <2>3. /\ FetchRecord(NoCommand, published, rows) /\ IngestedRecord(NoCommand, rows)
          /\ ConvertRecord(NoCommand, rows, files)
      BY <2>2 DEF FetchRecord, IngestedRecord, ConvertRecord
    <2> QED BY <2>1, <2>2, <2>3, CommandOnly
  <1> QED BY <1>1, <1>2, <1>3

\* The series at the head is one of the series, and the rest is the rest.
LEMMA HeadFacts ==
  ASSUME NEW q \in Seq(SeriesSet), q # << >>
  PROVE  /\ Head(q) \in SeriesSet /\ Tail(q) \in Seq(SeriesSet)
         /\ Len(q) \in Nat /\ Len(q) > 0 /\ (Tail(q) = << >> <=> Len(q) = 1)
         /\ \A i \in 1 .. Len(q) : q[i] # Head(q) => \E j \in 1 .. Len(Tail(q)) : Tail(q)[j] = q[i]
  <1>1. Head(q) \in SeriesSet /\ Tail(q) \in Seq(SeriesSet)
    OBVIOUS
  <1>2. Len(q) \in Nat /\ Len(q) > 0 /\ Len(Tail(q)) = Len(q) - 1 /\ Head(q) = q[1]
    OBVIOUS
  <1>3. \A u \in Seq(SeriesSet) : Len(u) = 0 <=> u = << >>
    OBVIOUS
  <1>4. Tail(q) = << >> <=> Len(q) = 1
    <2>1. Tail(q) = << >> <=> Len(Tail(q)) = 0
      BY <1>1, <1>3
    <2> QED BY <1>2, <2>1
  <1>5. \A j \in 1 .. Len(Tail(q)) : Tail(q)[j] = q[j + 1]
    OBVIOUS
  <1>6. ASSUME NEW i \in 1 .. Len(q), q[i] # Head(q)
        PROVE  \E j \in 1 .. Len(Tail(q)) : Tail(q)[j] = q[i]
    <2>1. i - 1 \in 1 .. Len(Tail(q)) /\ (i - 1) + 1 = i
      BY <1>2, <1>6
    <2> QED BY <1>5, <2>1
  <1> QED BY <1>1, <1>2, <1>4, <1>6

\* A month is fetched, or fails.
LEMMA FetchStep == \A c \in Commands : ArchiveInv /\ (Fetch(c) \/ FetchFails(c)) => ArchiveInv'
  <1> SUFFICES ASSUME NEW c \in Commands, ArchiveInv, Fetch(c) \/ FetchFails(c) PROVE ArchiveInv'
    OBVIOUS
  <1> DEFINE s == Head(cmd[c].left)
             m == cmd[c].month
  <1>t. /\ cmd \in [Commands -> CommandRecords] /\ cmd[c] \in CommandRecords
        /\ published \in Calendar /\ FetchRecord(cmd[c], published, rows)
    BY DEF ArchiveInv, ArchiveTypes
  <1>f. cmd[c].pc = "fetch" /\ UNCHANGED <<today, published, rows, files>>
    BY DEF Fetch, FetchFails, Fetching
  <1>l. cmd[c].left \in Seq(SeriesSet) /\ cmd[c].left # << >> /\ m \in Nat /\ cmd[c].got \in SUBSET (1 .. Months)
    BY <1>t, <1>f DEF FetchRecord, CommandRecords
  <1>s. s \in SeriesSet /\ published[s] \in SUBSET (1 .. Months)
    BY <1>t, <1>l, HeadFacts DEF Calendar
  <1>n. m + 1 \in Nat
    BY <1>l
  <1> HIDE DEF s, m
  <1>1. CASE Fetch(c)
    <2> DEFINE g == cmd[c].got \cup ({m} \cap published[s])
               r == [cmd[c] EXCEPT !.got = g, !.month = m + 1]
    <2>1. cmd' = [cmd EXCEPT ![c] = r]
      BY <1>1, <1>t DEF Fetch, s, m
    <2>2. g \in SUBSET (1 .. Months) /\ cmd[c].got \subseteq g /\ (m \in published[s] => m \in g)
      BY <1>l, <1>s
    <2> HIDE DEF g
    <2>3. /\ r \in CommandRecords /\ r.pc = "fetch" /\ r.left = cmd[c].left /\ r.had = cmd[c].had /\ r.ok = cmd[c].ok
          /\ r.from = cmd[c].from /\ r.to = cmd[c].to /\ r.got = g /\ r.month = m + 1
      BY <1>t, <1>f, <1>n, <2>2 DEF CommandRecords
    <2> HIDE DEF r
    <2>4. ASSUME NEW x \in r.had, r.ok, x[2] \in r.from .. r.to, x[1] = Head(r.left), x[2] < r.month
          PROVE  x[2] \in r.got
      <3>1. x \in cmd[c].had /\ x \in There(published) /\ x[1] = s /\ x[2] \in published[s] /\ x[2] \in Nat
        BY <1>t, <1>f, <2>3, <2>4 DEF FetchRecord, There, s
      <3>2. CASE x[2] < m
        BY <1>t, <1>f, <2>2, <2>3, <2>4, <3>2 DEF FetchRecord, m
      <3>3. CASE ~ (x[2] < m)
        <4>1. x[2] = m
          BY <1>l, <2>3, <2>4, <3>1, <3>3 DEF m
        <4> QED BY <2>2, <2>3, <3>1, <4>1
      <3> QED BY <3>2, <3>3
    <2>5. FetchRecord(r, published, rows)
      BY <1>t, <1>f, <2>3, <2>4 DEF FetchRecord, Pending
    <2>6. IngestedRecord(r, rows) /\ ConvertRecord(r, rows, files)
      BY <2>3 DEF IngestedRecord, ConvertRecord
    <2> QED BY <1>f, <2>1, <2>3, <2>5, <2>6, CommandOnly
  <1>2. CASE FetchFails(c)
    <2> DEFINE r == [cmd[c] EXCEPT !.month = m + 1, !.ok = FALSE]
    <2>1. cmd' = [cmd EXCEPT ![c] = r]
      BY <1>2, <1>t DEF FetchFails, m
    <2>2. r \in CommandRecords /\ r.pc = "fetch" /\ r.left = cmd[c].left /\ r.had = cmd[c].had /\ r.ok = FALSE
      BY <1>t, <1>f, <1>n DEF CommandRecords
    <2> HIDE DEF r
    <2>3. FetchRecord(r, published, rows) /\ IngestedRecord(r, rows) /\ ConvertRecord(r, rows, files)
      BY <1>t, <1>f, <2>2 DEF FetchRecord, IngestedRecord, ConvertRecord
    <2> QED BY <1>f, <2>1, <2>2, <2>3, CommandOnly
  <1> QED BY <1>1, <1>2

\* What a series had is archived, and the next one begins.
LEMMA InsertStep == \A c \in Commands : ArchiveInv /\ Insert(c) => ArchiveInv'
  <1> SUFFICES ASSUME NEW c \in Commands, ArchiveInv, Insert(c) PROVE ArchiveInv'
    OBVIOUS
  <1> DEFINE s == Head(cmd[c].left)
             rest == Tail(cmd[c].left)
             R == [rows EXCEPT ![s] = @ \cup cmd[c].got]
             p == IF rest = << >> THEN "ingested" ELSE "fetch"
             r == [cmd[c] EXCEPT !.left = rest, !.month = cmd[c].from, !.got = {}, !.pc = p]
  <1>t. /\ cmd \in [Commands -> CommandRecords] /\ cmd[c] \in CommandRecords /\ rows \in Calendar
        /\ published \in Calendar /\ FetchRecord(cmd[c], published, rows)
        /\ files \in [SeriesSet -> SUBSET (SUBSET (1 .. Months))]
    BY DEF ArchiveInv, ArchiveTypes
  <1>f. cmd[c].pc = "fetch" /\ cmd[c].month > cmd[c].to /\ UNCHANGED <<today, published, files>>
    BY DEF Insert
  <1>l. /\ cmd[c].left \in Seq(SeriesSet) /\ cmd[c].left # << >> /\ cmd[c].got \in SUBSET (1 .. Months)
        /\ cmd[c].from \in Nat /\ cmd[c].to \in Nat /\ cmd[c].month \in Nat
    BY <1>t, <1>f DEF FetchRecord, CommandRecords
  <1>s. /\ s \in SeriesSet /\ rest \in Seq(SeriesSet) /\ p \in {"ingested", "fetch"}
        /\ \A i \in 1 .. Len(cmd[c].left) : cmd[c].left[i] # s => \E j \in 1 .. Len(rest) : rest[j] = cmd[c].left[i]
    BY <1>l, HeadFacts
  <1>1. cmd' = [cmd EXCEPT ![c] = r]
    BY <1>t DEF Insert
  <1>2. rows' = R
    BY DEF Insert
  <1>3. /\ R \in Calendar /\ cmd[c].got \subseteq R[s] /\ \A u \in SeriesSet : rows[u] \subseteq R[u]
    BY <1>t, <1>l, <1>s DEF Calendar
  <1> HIDE DEF R
  <1>e. p = "fetch" <=> rest # << >>
    OBVIOUS
  <1>p. \A u \in SeriesSet : Pending(cmd[c], u) /\ u # s => \E j \in 1 .. Len(rest) : rest[j] = u
    BY <1>s DEF Pending
  <1> HIDE DEF s, rest, p
  <1>4. /\ r \in CommandRecords /\ r.pc = p /\ r.left = rest /\ r.had = cmd[c].had /\ r.ok = cmd[c].ok
        /\ r.from = cmd[c].from /\ r.to = cmd[c].to /\ r.got = {} /\ r.month = cmd[c].from
    BY <1>t, <1>l, <1>s DEF CommandRecords
  <1> HIDE DEF r
  <1>5. \A x \in r.had : x \in cmd[c].had /\ x \in There(published) /\ x[1] \in SeriesSet /\ x[2] \in 1 .. Months
                         /\ x \in SeriesSet \X (1 .. Months)
    BY <1>t, <1>f, <1>4 DEF FetchRecord, There
  <1>6. ASSUME NEW x \in r.had, r.ok, x[2] \in r.from .. r.to
        PROVE  Pending(r, x[1]) \/ x[2] \in R[x[1]]
    <2>1. Pending(cmd[c], x[1]) \/ x[2] \in rows[x[1]]
      BY <1>t, <1>f, <1>4, <1>6 DEF FetchRecord
    <2>2. CASE x[2] \in rows[x[1]]
      BY <1>3, <1>5, <2>2
    <2>3. CASE x[1] = s
      <3>1. x[2] < cmd[c].month
        BY <1>l, <1>f, <1>4, <1>5, <1>6
      <3>2. x[2] \in cmd[c].got
        BY <1>t, <1>f, <1>4, <1>6, <2>3, <3>1 DEF FetchRecord, s
      <3> QED BY <1>3, <2>3, <3>2
    <2>4. CASE Pending(cmd[c], x[1]) /\ x[1] # s
      <3>1. \E j \in 1 .. Len(rest) : rest[j] = x[1]
        BY <1>5, <1>p, <2>4
      <3> QED BY <1>4, <3>1 DEF Pending
    <2> QED BY <2>1, <2>2, <2>3, <2>4
  <1>7. ASSUME NEW x \in r.had, x[2] \in r.from .. r.to PROVE ~ (x[2] < r.month)
    BY <1>l, <1>4, <1>5, <1>7
  <1>8. FetchRecord(r, published, R)
    <2>1. r.pc = "fetch" => r.left # << >>
      BY <1>4, <1>e
    <2>2. r.had \subseteq There(published)
      BY <1>5
    <2> QED BY <1>6, <1>7, <2>1, <2>2 DEF FetchRecord
  <1>9. IngestedRecord(r, R)
    <2> SUFFICES ASSUME r.pc = "ingested", r.ok, NEW x \in r.had, x[2] \in r.from .. r.to PROVE x \in There(R)
      BY DEF IngestedRecord
    <2>1. rest = << >>
      BY <1>4, <1>e
    <2>2. ~ Pending(r, x[1])
      BY <1>4, <2>1 DEF Pending
    <2>3. x[2] \in R[x[1]]
      BY <1>6, <2>2
    <2> QED BY <1>5, <2>3 DEF There
  <1>10. ConvertRecord(r, R, files)
    BY <1>4, <1>s DEF ConvertRecord
  <1>11. FilesInv'
    BY <1>2, <1>3, <1>f DEF ArchiveInv, FilesInv
  <1>12. \A u \in SeriesSet : \A f \in files[u] : \A k \in f : \E g \in files'[u] : k \in g
    BY <1>f
  <1> QED BY <1>1, <1>2, <1>3, <1>4, <1>8, <1>9, <1>10, <1>11, <1>12, <1>t, <1>f, CommandStep

\* A converted series: its file replaces the one of the same span, or what is there forbids it.
LEMMA WriteStep == \A c \in Commands : ArchiveInv /\ Write(c) => ArchiveInv'
  <1> SUFFICES ASSUME NEW c \in Commands, ArchiveInv, Write(c) PROVE ArchiveInv'
    OBVIOUS
  <1> DEFINE s == Head(cmd[c].left)
             f == rows[s]
             rest == Tail(cmd[c].left)
             p == IF Len(cmd[c].left) = 1 THEN "converted" ELSE "convert"
             r == [cmd[c] EXCEPT !.left = rest, !.pc = p]
  <1>t. /\ cmd \in [Commands -> CommandRecords] /\ cmd[c] \in CommandRecords /\ rows \in Calendar
        /\ files \in [SeriesSet -> SUBSET (SUBSET (1 .. Months))]
        /\ ConvertRecord(cmd[c], rows, files) /\ FilesInv
    BY DEF ArchiveInv, ArchiveTypes
  <1>f. cmd[c].pc = "convert" /\ UNCHANGED <<today, published, rows>>
    BY DEF Write
  <1>l. cmd[c].left \in Seq(SeriesSet) /\ cmd[c].left # << >>
    BY <1>t, <1>f DEF ConvertRecord, CommandRecords
  <1>s. /\ s \in SeriesSet /\ rest \in Seq(SeriesSet) /\ p \in {"converted", "convert"}
        /\ (rest = << >>) <=> (p = "converted")
        /\ \A i \in 1 .. Len(cmd[c].left) : cmd[c].left[i] # s => \E j \in 1 .. Len(rest) : rest[j] = cmd[c].left[i]
    BY <1>l, HeadFacts
  <1>w. Written(c) = [cmd EXCEPT ![c] = r]
    BY <1>t DEF Written
  <1>1. f \in SUBSET (1 .. Months)
    BY <1>t, <1>s DEF Calendar
  <1>p. \A u \in SeriesSet : Pending(cmd[c], u) /\ u # s => \E j \in 1 .. Len(rest) : rest[j] = u
    BY <1>s DEF Pending
  <1>n. (f = {} /\ cmd' = Written(c) /\ UNCHANGED files)
        \/ (/\ f # {} /\ \A g \in files[s] : ~Overlap(f, g)
            /\ files' = [files EXCEPT ![s] = {g \in @ : Span(g) # Span(f)} \cup {f}]
            /\ cmd' = Written(c))
        \/ (f # {} /\ cmd' = [cmd EXCEPT ![c].pc = "raised"] /\ UNCHANGED files)
    BY DEF Write
  <1> HIDE DEF s, rest, p, f
  <1>2. /\ r \in CommandRecords /\ r.pc = p /\ r.left = rest /\ r.had = cmd[c].had
    BY <1>t, <1>s DEF CommandRecords
  <1> HIDE DEF r
  <1>3. /\ r.had \subseteq There(rows)
        /\ (r.left = << >>) <=> (r.pc = "converted")
        /\ \A x \in r.had : x[1] \in SeriesSet /\ x[2] \in rows[x[1]]
    <2>1. r.had \subseteq There(rows)
      BY <1>t, <1>f, <1>2 DEF ConvertRecord
    <2>2. \A x \in There(rows) : x[1] \in SeriesSet /\ x[2] \in rows[x[1]]
      BY DEF There
    <2> QED BY <1>s, <1>2, <2>1, <2>2
  <1>4. FetchRecord(r, published, rows) /\ IngestedRecord(r, rows)
    BY <1>2, <1>s DEF FetchRecord, IngestedRecord
  <1>5. \A x \in r.had : x[1] \in BarSet => \/ Pending(r, x[1]) \/ x[1] = s
                                           \/ \E g \in files[x[1]] : x[2] \in g
    <2> SUFFICES ASSUME NEW x \in r.had, x[1] \in BarSet, x[1] # s, Pending(cmd[c], x[1]) PROVE Pending(r, x[1])
      BY <1>t, <1>f, <1>2 DEF ConvertRecord
    <2> QED BY <1>2, <1>3, <1>p DEF Pending
  <1>6. CASE f = {} /\ cmd' = Written(c) /\ UNCHANGED files
    <2>1. ASSUME NEW x \in r.had, x[1] = s PROVE FALSE
      BY <1>3, <1>6, <2>1 DEF f
    <2>2. ConvertRecord(r, rows, files)
      BY <1>3, <1>5, <2>1 DEF ConvertRecord
    <2> QED BY <1>w, <1>f, <1>2, <1>4, <1>6, <2>2, CommandOnly
  <1>7. CASE /\ f # {} /\ \A g \in files[s] : ~Overlap(f, g)
             /\ files' = [files EXCEPT ![s] = {g \in @ : Span(g) # Span(f)} \cup {f}]
             /\ cmd' = Written(c)
    <2> DEFINE new == {g \in files[s] : Span(g) # Span(f)} \cup {f}
    <2>1. files' = [files EXCEPT ![s] = new]
      BY <1>7
    <2>2. new \in SUBSET (SUBSET (1 .. Months)) /\ f \in new
      BY <1>t, <1>s, <1>1
    <2>3. \A g \in new : g = f \/ (g \in files[s] /\ ~ (Min(g) <= Max(f) /\ Min(f) <= Max(g)))
      BY <1>7 DEF Overlap
    <2> HIDE DEF new
    <2>4. /\ files'[s] = new /\ \A u \in SeriesSet : u # s => files'[u] = files[u]
          /\ files' \in [SeriesSet -> SUBSET (SUBSET (1 .. Months))]
      BY <1>t, <1>s, <2>1, <2>2
    <2>5. FilesInv'
      <3>1. ASSUME NEW u \in SeriesSet
            PROVE  /\ \A g \in files'[u] : g # {} /\ g \subseteq rows[u]
                   /\ \A g, h \in files'[u] : g # h => ~ (Min(g) <= Max(h) /\ Min(h) <= Max(g))
        <4>1. CASE u # s
          BY <1>t, <2>4, <4>1 DEF FilesInv
        <4>2. CASE u = s
          <5>1. /\ \A g \in files[s] : g # {} /\ g \subseteq rows[s]
                /\ \A g, h \in files[s] : g # h => ~ (Min(g) <= Max(h) /\ Min(h) <= Max(g))
            BY <1>t, <1>s DEF FilesInv
          <5>2. \A g \in new : g # {} /\ g \subseteq rows[s]
            BY <1>7, <2>3, <5>1 DEF f
          <5>3. \A g, h \in new : g # h => ~ (Min(g) <= Max(h) /\ Min(h) <= Max(g))
            BY <2>3, <5>1
          <5> QED BY <2>4, <4>2, <5>2, <5>3
        <4> QED BY <4>1, <4>2
      <3> QED BY <1>f, <3>1 DEF FilesInv
    <2>6. \A u \in SeriesSet : \A g \in files[u] : \A m \in g : \E h \in files'[u] : m \in h
      <3> SUFFICES ASSUME NEW u \in SeriesSet, NEW g \in files[u], NEW m \in g PROVE \E h \in files'[u] : m \in h
        OBVIOUS
      <3>1. CASE u # s
        BY <2>4, <3>1
      <3>2. CASE u = s
        <4>1. m \in f
          BY <1>t, <3>2 DEF FilesInv, f
        <4> QED BY <2>2, <2>4, <3>2, <4>1
      <3> QED BY <3>1, <3>2
    <2>7. ConvertRecord(r, rows, files')
      <3> SUFFICES ASSUME NEW x \in r.had, x[1] \in BarSet, ~ Pending(r, x[1]) PROVE \E g \in files'[x[1]] : x[2] \in g
        BY <1>3 DEF ConvertRecord
      <3>1. CASE x[1] = s
        <4>1. x[2] \in f
          BY <1>3, <3>1 DEF f
        <4> QED BY <2>2, <2>4, <3>1, <4>1
      <3>2. CASE \E g \in files[x[1]] : x[2] \in g
        BY <1>3, <2>6, <3>2
      <3> QED BY <1>5, <3>1, <3>2
    <2>8. FetchRecord(r, published, rows') /\ IngestedRecord(r, rows') /\ ConvertRecord(r, rows', files')
          /\ rows' \in Calendar /\ \A u \in SeriesSet : rows[u] \subseteq rows'[u]
      BY <1>t, <1>f, <1>4, <2>7
    <2>9. cmd' = [cmd EXCEPT ![c] = r]
      BY <1>w, <1>7
    <2> QED BY <1>f, <1>2, <2>4, <2>5, <2>6, <2>8, <2>9, CommandStep
  <1>8. CASE f # {} /\ cmd' = [cmd EXCEPT ![c].pc = "raised"] /\ UNCHANGED files
    <2> DEFINE q == [cmd[c] EXCEPT !.pc = "raised"]
    <2>1. cmd' = [cmd EXCEPT ![c] = q]
      BY <1>t, <1>8
    <2>2. q \in CommandRecords /\ q.pc = "raised"
      BY <1>t DEF CommandRecords
    <2> HIDE DEF q
    <2>3. FetchRecord(q, published, rows) /\ IngestedRecord(q, rows) /\ ConvertRecord(q, rows, files)
      BY <2>2 DEF FetchRecord, IngestedRecord, ConvertRecord
    <2> QED BY <1>f, <1>8, <2>1, <2>2, <2>3, CommandOnly
  <1> QED BY <1>n, <1>6, <1>7, <1>8

\* Every step.
LEMMA ArchiveStep == ArchiveInv /\ [ArchiveNext]_avars => ArchiveInv'
  <1> SUFFICES ASSUME ArchiveInv, [ArchiveNext]_avars PROVE ArchiveInv'
    OBVIOUS
  <1>1. CASE UNCHANGED avars
    <2>1. ArchiveTypes' /\ FilesInv'
      BY <1>1 DEF ArchiveInv, ArchiveTypes, FilesInv, avars
    <2>2. \A c \in Commands : /\ FetchRecord(cmd'[c], published', rows') /\ IngestedRecord(cmd'[c], rows')
                              /\ ConvertRecord(cmd'[c], rows', files')
      BY <1>1 DEF ArchiveInv, avars
    <2> QED BY <2>1, <2>2 DEF ArchiveInv
  <1>2. CASE ArchiveNext
    BY <1>2, VenueStep, BeginEndStep, FetchStep, InsertStep, WriteStep DEF ArchiveNext
  <1> QED BY <1>1, <1>2

\* A month that a file has, no other file of the series has.
LEMMA OnceOnly ==
  ASSUME ArchiveTypes, FilesInv, NEW s \in SeriesSet, NEW f \in files[s], NEW m \in f
  PROVE  Cardinality({g \in files[s] : m \in g}) = 1
  <1>1. \A g \in files[s] : g \in SUBSET (1 .. Months) /\ g # {}
    BY DEF ArchiveTypes, FilesInv
  <1>2. m \in Nat
    BY <1>1, ArchiveConfig
  <1>3. ASSUME NEW g \in files[s], m \in g PROVE g = f
    <2>1. /\ Min(f) \in f /\ Max(f) \in f /\ Min(f) <= m /\ m <= Max(f)
          /\ Min(g) \in g /\ Max(g) \in g /\ Min(g) <= m /\ m <= Max(g)
      BY <1>1, <1>3, SpanFacts
    <2>2. /\ Min(f) \in Nat /\ Max(f) \in Nat /\ Min(g) \in Nat /\ Max(g) \in Nat
      BY <1>1, <2>1, ArchiveConfig
    <2>3. Min(g) <= Max(f) /\ Min(f) <= Max(g)
      BY <1>2, <2>1, <2>2
    <2> QED BY <2>3 DEF FilesInv
  <1>4. {g \in files[s] : m \in g} = {f}
    BY <1>3
  <1> QED BY <1>4, FS_Singleton

\* A command of the archive that ends without an error has done all it was
\* asked: `ingest` archived what was published when it began, `catalog` put
\* every archived bar into exactly one file (ingestion.py, archive.py), however
\* the commands interleave, die and are run again.
THEOREM CommandsDidAll == ArchiveSpec => []EndedDidAll
  <1>1. ArchiveInv => EndedDidAll
    <2> SUFFICES ASSUME ArchiveInv, NEW c \in Commands
                 PROVE  /\ cmd[c].pc = "ingested" /\ cmd[c].ok
                             => \A x \in cmd[c].had : x[2] \in cmd[c].from .. cmd[c].to => x \in There(rows)
                        /\ cmd[c].pc = "converted"
                             => \A x \in cmd[c].had : x[1] \in {Bars[i] : i \in 1 .. Len(Bars)} =>
                                  Cardinality({f \in files[x[1]] : x[2] \in f}) = 1
      BY DEF EndedDidAll
    <2>1. IngestedRecord(cmd[c], rows) /\ ConvertRecord(cmd[c], rows, files) /\ ArchiveTypes /\ FilesInv
      BY DEF ArchiveInv
    <2>2. ASSUME cmd[c].pc = "converted", NEW x \in cmd[c].had, x[1] \in BarSet
          PROVE  Cardinality({f \in files[x[1]] : x[2] \in f}) = 1
      <3>1. ~ Pending(cmd[c], x[1])
        BY <2>1, <2>2 DEF ConvertRecord, Pending
      <3>2. PICK f \in files[x[1]] : x[2] \in f
        BY <2>1, <2>2, <3>1 DEF ConvertRecord
      <3>3. x[1] \in SeriesSet
        BY <2>2, SeriesFacts
      <3> QED BY <2>1, <3>2, <3>3, OnceOnly
    <2> QED BY <2>1, <2>2 DEF IngestedRecord, BarSet
  <1> QED BY <1>1, ArchiveInitInv, ArchiveStep, PTL DEF ArchiveSpec

-----------------------------------------------------------------------------
(* PortfolioRisk.  What the figures add up to does not matter: a check     *)
(* reads them and leaves them alone.  Full size two cooldowns after the    *)
(* last breach needs the timers of both stages tied to the time since it.  *)

\* The timer of a halt, and the one of the cooldown after it, never run ahead.
TimersHonest ==
  /\ risk.mode = "halted"   => risk.timer <= quiet
  /\ risk.mode = "cooldown" => risk.timer + Cooldown <= quiet

RiskInv == TypeOK /\ TradingIsSafe /\ SizeIsEarned /\ TimersHonest

\* Two states with the same figures.
SameFigures(r, c) ==
  c.hwm = r.hwm /\ c.mark = r.mark /\ c.base = r.base /\ c.noted = r.noted

-----------------------------------------------------------------------------

LEMMA ModeTyped ==
  ASSUME NEW r \in RiskStates, NEW m \in Modes
  PROVE  LET c == [r EXCEPT !.mode = m, !.timer = 0]
         IN  c \in RiskStates /\ c.mode = m /\ c.timer = 0 /\ SameFigures(r, c)
<1>1. 0 \in 0 .. Cooldown
  BY PortfolioConfig
<1> QED
  BY <1>1 DEF RiskStates, SameFigures

LEMMA HaltTyped ==
  ASSUME NEW r \in RiskStates
  PROVE  Halt(r) \in RiskStates /\ Halt(r).mode = "halted" /\ Halt(r).timer = 0
<1>1. "halted" \in Modes
  BY DEF Modes
<1> QED
  BY <1>1, ModeTyped, Zenon DEF Halt

\* The two expiries: what they change, and when.
LEMMA AfterHaltTyped ==
  ASSUME NEW r \in RiskStates
  PROVE  /\ AfterHalt(r) \in RiskStates /\ SameFigures(r, AfterHalt(r))
         /\ ~ Expired(r) => AfterHalt(r) = r
         /\ Expired(r) => AfterHalt(r).mode = "cooldown" /\ AfterHalt(r).timer = 0
<1>1. "cooldown" \in Modes
  BY DEF Modes
<1>2. CASE Expired(r)
  BY <1>1, <1>2, ModeTyped, Zenon DEF AfterHalt
<1>3. CASE ~ Expired(r)
  BY <1>3 DEF AfterHalt, SameFigures
<1> QED
  BY <1>2, <1>3

LEMMA AfterCooldownTyped ==
  ASSUME NEW r \in RiskStates
  PROVE  /\ AfterCooldown(r) \in RiskStates /\ SameFigures(r, AfterCooldown(r))
         /\ ~ Expired(r) => AfterCooldown(r) = r
         /\ Expired(r) => AfterCooldown(r).mode = "active" /\ AfterCooldown(r).timer = 0
<1>1. "active" \in Modes
  BY DEF Modes
<1>2. CASE Expired(r)
  BY <1>1, <1>2, ModeTyped, Zenon DEF AfterCooldown
<1>3. CASE ~ Expired(r)
  BY <1>3 DEF AfterCooldown, SameFigures
<1> QED
  BY <1>2, <1>3

LEMMA UpdatesTyped ==
  ASSUME RiskInv, NEW r \in Updates(risk)
  PROVE  r \in RiskStates /\ r.mode = risk.mode /\ r.timer = risk.timer
<1>1. risk \in RiskStates /\ equity \in Nat /\ book \in [Instruments -> Nat]
  <2>1. Equities \subseteq Nat /\ Notionals \cup {0} \subseteq Nat
    BY PortfolioConfig
  <2>2. risk \in RiskStates /\ equity \in Equities
        /\ book \in [Instruments -> Notionals \cup {0}]
    BY DEF RiskInv, TypeOK
  <2>3. [Instruments -> Notionals \cup {0}] \subseteq [Instruments -> Nat]
    BY <2>1
  <2> QED
    BY <2>1, <2>2, <2>3
<1>2. ASSUME NEW h \in Nat, NEW k \in Nat
      PROVE  LET m == [risk EXCEPT !.hwm = h, !.mark = k]
             IN  m \in RiskStates /\ m.mode = risk.mode /\ m.timer = risk.timer
  BY <1>1 DEF RiskStates
<1>3. ASSUME NEW m \in RiskStates, m.mode = risk.mode, m.timer = risk.timer
      PROVE  LET n == [m EXCEPT !.base = equity, !.noted = book]
             IN  n \in RiskStates /\ n.mode = risk.mode /\ n.timer = risk.timer
  BY <1>1, <1>3 DEF RiskStates
<1>4. (IF equity > risk.hwm THEN equity ELSE risk.hwm) \in Nat
  BY <1>1 DEF RiskStates
<1> DEFINE u == [risk EXCEPT !.hwm = IF equity > risk.hwm THEN equity ELSE risk.hwm, !.mark = equity]
<1>5. u \in RiskStates /\ u.mode = risk.mode /\ u.timer = risk.timer
  BY <1>1, <1>2, <1>4
<1>6. r = risk \/ r = u \/ r = [u EXCEPT !.base = equity, !.noted = book]
  BY DEF Updates
<1> HIDE DEF u
<1> QED
  BY <1>1, <1>3, <1>5, <1>6

\* A check that does not halt has compared the very figures it leaves behind.
LEMMA CheckCases ==
  ASSUME NEW r \in RiskStates
  PROVE  /\ CheckRisk(r) \in RiskStates
         /\ \/ r.mode = "halted" /\ ~ Expired(r) /\ CheckRisk(r) = r
            \/ /\ ~ (r.mode = "halted" /\ ~ Expired(r))
               /\ CheckRisk(r).mode = "halted" /\ CheckRisk(r).timer = 0
            \/ /\ r.mode = "halted" /\ Expired(r) /\ ~ Breached(CheckRisk(r))
               /\ CheckRisk(r).mode = "cooldown" /\ CheckRisk(r).timer = 0
            \/ /\ r.mode = "cooldown" /\ Expired(r) /\ ~ Breached(CheckRisk(r))
               /\ CheckRisk(r).mode = "active"
            \/ /\ r.mode # "halted" /\ ~ Breached(CheckRisk(r)) /\ CheckRisk(r) = r
<1> DEFINE h == IF r.mode = "halted" THEN AfterHalt(r) ELSE r
           c == IF h.mode = "cooldown" THEN AfterCooldown(h) ELSE h
<1>m. r.mode \in Modes
  BY DEF RiskStates
<1>h. h \in RiskStates
  BY AfterHaltTyped
<1> HIDE DEF h
<1>c. c \in RiskStates
  BY <1>h, AfterCooldownTyped
<1> HIDE DEF c
<1>def. CheckRisk(r) = IF h.mode = "halted" THEN h ELSE IF Breached(c) THEN Halt(c) ELSE c
  BY DEF CheckRisk, c, h
<1>1. CASE r.mode = "halted" /\ ~ Expired(r)
  <2>1. h = r
    BY <1>1, AfterHaltTyped DEF h
  <2> QED
    BY <1>1, <1>def, <2>1
<1>2. CASE r.mode = "halted" /\ Expired(r)
  <2>1. h.mode = "cooldown" /\ h.timer = 0
    BY <1>2, AfterHaltTyped DEF h
  <2>2. ~ Expired(h)
    BY <2>1, PortfolioConfig DEF Expired
  <2>3. c = h
    BY <1>h, <2>1, <2>2, AfterCooldownTyped DEF c
  <2>4. CASE Breached(c)
    BY <1>2, <1>c, <1>def, <2>1, <2>4, HaltTyped
  <2>5. CASE ~ Breached(c)
    BY <1>2, <1>c, <1>def, <2>1, <2>3, <2>5
  <2> QED
    BY <2>4, <2>5
<1>3. CASE r.mode # "halted"
  <2>1. h = r
    BY <1>3 DEF h
  <2>2. CASE Breached(c)
    BY <1>3, <1>c, <1>def, <2>1, <2>2, HaltTyped
  <2>3. CASE ~ Breached(c) /\ r.mode = "cooldown" /\ Expired(r)
    <3>1. c.mode = "active"
      BY <2>1, <2>3, AfterCooldownTyped DEF c
    <3> QED
      BY <1>3, <1>c, <1>def, <2>1, <2>3, <3>1
  <2>4. CASE ~ Breached(c) /\ ~ (r.mode = "cooldown" /\ Expired(r))
    <3>1. c = r
      BY <2>1, <2>4, AfterCooldownTyped DEF c
    <3> QED
      BY <1>3, <1>c, <1>def, <2>1, <2>4, <3>1
  <2> QED
    BY <2>2, <2>3, <2>4
<1> QED
  BY <1>1, <1>2, <1>3

-----------------------------------------------------------------------------

LEMMA InitInv == Init => RiskInv
<1> SUFFICES ASSUME Init PROVE RiskInv
  OBVIOUS
<1>1. equity \in Equities /\ equity \in Nat
  BY PortfolioConfig DEF Init
<1>2. /\ risk.mode = "active" /\ risk.hwm = equity /\ risk.mark = equity /\ risk.base = 0
      /\ risk.timer = 0 /\ risk \in RiskStates
  <2>1. [i \in Instruments |-> 0] \in [Instruments -> Nat] /\ "active" \in Modes
        /\ 0 \in 0 .. Cooldown
    BY PortfolioConfig DEF Modes
  <2> QED
    BY <1>1, <2>1 DEF Init, RiskStates
<1>3. quiet = 2 * Cooldown /\ Cooldown \in Nat
  BY PortfolioConfig DEF Init
<1>4. TypeOK
  BY <1>1, <1>2, <1>3 DEF Init, TypeOK
<1>5. ~ DrawdownBreached(risk)
  BY <1>1, <1>2, PortfolioConfig DEF DrawdownBreached
<1>6. ~ Breached(risk)
  BY <1>2, <1>5 DEF Breached, ExposureBreached, ConcentrationBreached, HeatBreached, AtLeast
<1> QED
  BY <1>2, <1>3, <1>4, <1>6 DEF RiskInv, TradingIsSafe, SizeIsEarned, TimersHonest, Scale

\* What the invariant says of a state, in terms of mode and timer alone.
LEMMA Earned ==
  ASSUME NEW r \in RiskStates
  PROVE  /\ Scale(r) # "none" <=> r.mode # "halted"
         /\ Scale(r) = "full" <=> r.mode = "active"
  BY DEF RiskStates, Modes, Scale

LEMMA NextInv == RiskInv /\ [Next]_vars => RiskInv'
<1> SUFFICES ASSUME RiskInv, [Next]_vars PROVE RiskInv'
  OBVIOUS
<1>t. /\ risk \in RiskStates /\ quiet \in 0 .. (2 * Cooldown) /\ Cooldown \in Nat
      /\ risk.timer \in 0 .. Cooldown /\ risk.mode \in Modes
  BY PortfolioConfig DEF RiskInv, TypeOK, RiskStates
<1>e. /\ risk.mode # "halted" => quiet >= Cooldown
      /\ risk.mode = "active" => quiet >= 2 * Cooldown
  BY <1>t, Earned DEF RiskInv, SizeIsEarned
<1>1. CASE Handle
  <2>1. PICK r \in Updates(risk) :
          /\ risk' = CheckRisk(r)
          /\ quiet' = IF CheckRisk(r).mode = "halted"
                         /\ (risk.mode # "halted" \/ CheckRisk(r).timer < risk.timer)
                      THEN 0 ELSE quiet
          /\ UNCHANGED <<equity, book>>
    BY <1>1 DEF Handle
  <2>2. r \in RiskStates /\ r.mode = risk.mode /\ r.timer = risk.timer
    BY UpdatesTyped
  <2>3. CheckRisk(r) \in RiskStates
    BY <2>2, CheckCases
  <2>4. TypeOK'
    BY <1>t, <2>1, <2>3 DEF RiskInv, TypeOK
  <2>f. Expired(r) <=> Cooldown > 0 /\ risk.timer >= Cooldown
    BY <2>2 DEF Expired
  <2>5. /\ risk'.mode # "halted" => ~ Breached(risk')
        /\ risk'.mode # "halted" => quiet' >= Cooldown
        /\ risk'.mode = "active" => quiet' >= 2 * Cooldown
        /\ risk'.mode = "halted" => risk'.timer <= quiet'
        /\ risk'.mode = "cooldown" => risk'.timer + Cooldown <= quiet'
    <3>1. CASE r.mode = "halted" /\ ~ Expired(r) /\ CheckRisk(r) = r
      BY <1>t, <2>1, <2>2, <3>1 DEF RiskInv, TimersHonest
    <3>2. CASE /\ ~ (r.mode = "halted" /\ ~ Expired(r))
               /\ CheckRisk(r).mode = "halted" /\ CheckRisk(r).timer = 0
      <4>1. quiet' \in Nat
        BY <1>t, <2>1
      <4> QED
        BY <2>1, <3>2, <4>1
    <3>3. CASE /\ r.mode = "halted" /\ Expired(r) /\ ~ Breached(CheckRisk(r))
               /\ CheckRisk(r).mode = "cooldown" /\ CheckRisk(r).timer = 0
      <4>1. risk'.mode = "cooldown" /\ risk'.timer = 0 /\ quiet' = quiet /\ ~ Breached(risk')
        BY <2>1, <3>3 DEF Breached, DrawdownBreached, ExposureBreached,
                          ConcentrationBreached, HeatBreached, AtLeast
      <4> QED
        BY <1>t, <2>2, <2>f, <3>3, <4>1 DEF RiskInv, TimersHonest
    <3>4. CASE /\ r.mode = "cooldown" /\ Expired(r) /\ ~ Breached(CheckRisk(r))
               /\ CheckRisk(r).mode = "active"
      <4>1. risk'.mode = "active" /\ quiet' = quiet /\ ~ Breached(risk')
        BY <2>1, <3>4 DEF Breached, DrawdownBreached, ExposureBreached,
                          ConcentrationBreached, HeatBreached, AtLeast
      <4> QED
        BY <1>t, <2>2, <2>f, <3>4, <4>1 DEF RiskInv, TimersHonest
    <3>5. CASE /\ r.mode # "halted" /\ ~ Breached(CheckRisk(r)) /\ CheckRisk(r) = r
      <4>1. /\ risk'.mode = risk.mode /\ risk'.timer = risk.timer /\ quiet' = quiet
            /\ ~ Breached(risk')
        BY <2>1, <2>2, <3>5 DEF Breached, DrawdownBreached, ExposureBreached,
                                ConcentrationBreached, HeatBreached, AtLeast
      <4> QED
        BY <1>e, <2>2, <3>5, <4>1 DEF RiskInv, TimersHonest
    <3> QED
      BY <2>2, CheckCases, <3>1, <3>2, <3>3, <3>4, <3>5
  <2>6. risk' \in RiskStates
    BY <2>1, <2>3
  <2> QED
    BY <2>4, <2>5, <2>6, Earned
    DEF RiskInv, TradingIsSafe, SizeIsEarned, TimersHonest, Breached, DrawdownBreached,
        ExposureBreached, ConcentrationBreached, HeatBreached, AtLeast, Scale
<1>2. CASE Tick
  <2> DEFINE n == IF risk.mode # "active" /\ risk.timer < Cooldown THEN risk.timer + 1
                  ELSE risk.timer
  <2>n. n \in 0 .. Cooldown
    BY <1>t
  <2>1. risk' = [risk EXCEPT !.timer = n]
    BY <1>2 DEF Tick
  <2>2. /\ risk' \in RiskStates /\ risk'.mode = risk.mode /\ risk'.timer = n
        /\ SameFigures(risk, risk')
    BY <1>t, <2>n, <2>1 DEF RiskStates, SameFigures
  <2>3. quiet' = (IF quiet < 2 * Cooldown THEN quiet + 1 ELSE quiet) /\ UNCHANGED <<equity, book>>
    BY <1>2 DEF Tick
  <2>4. TypeOK'
    BY <1>t, <2>2, <2>3 DEF RiskInv, TypeOK
  <2>5. TradingIsSafe'
    BY <2>2 DEF RiskInv, TradingIsSafe, SameFigures, Breached, DrawdownBreached,
                ExposureBreached, ConcentrationBreached, HeatBreached, AtLeast
  <2>6. TimersHonest'
    BY <1>t, <2>2, <2>3 DEF RiskInv, TimersHonest
  <2>7. quiet' >= quiet
    BY <1>t, <2>3
  <2>8. SizeIsEarned'
    <3>1. /\ Scale(risk') # "none" <=> risk.mode # "halted"
          /\ Scale(risk') = "full" <=> risk.mode = "active"
      BY <2>2, Earned
    <3>2. quiet \in Nat /\ quiet' \in Nat /\ Cooldown \in Nat
      BY <1>t, <2>3
    <3> QED
      BY <1>e, <2>7, <3>1, <3>2 DEF SizeIsEarned
  <2> QED
    BY <2>4, <2>5, <2>6, <2>8 DEF RiskInv
<1>3. CASE Move
  <2>1. UNCHANGED <<risk, quiet>>
    BY <1>3 DEF Move
  <2>2. equity' \in Equities /\ book' \in [Instruments -> Notionals \cup {0}]
    BY <1>3 DEF Move, RiskInv, TypeOK
  <2> QED
    BY <2>1, <2>2 DEF RiskInv, TypeOK, TradingIsSafe, SizeIsEarned, TimersHonest, Scale, Breached,
                      DrawdownBreached, ExposureBreached, ConcentrationBreached, HeatBreached, AtLeast
<1>4. CASE UNCHANGED vars
  BY <1>4 DEF vars, RiskInv, TypeOK, TradingIsSafe, SizeIsEarned, TimersHonest, Scale, Breached,
              DrawdownBreached, ExposureBreached, ConcentrationBreached, HeatBreached, AtLeast
<1> QED
  BY <1>1, <1>2, <1>3, <1>4 DEF Next

\* The invariant holds in every reachable state.
THEOREM Inductive == Spec => []RiskInv
<1>1. Init => RiskInv
  BY InitInv
<1>2. RiskInv /\ [Next]_vars => RiskInv'
  BY NextInv
<1> QED
  BY <1>1, <1>2, PTL DEF Spec

\* The actor's figures keep their types (PortfolioRiskState).
THEOREM TypeCorrect == Spec => []TypeOK
  BY Inductive, PTL DEF RiskInv

\* A portfolio that may trade is within all limits (_check_risk).
THEOREM SafeWhileTrading == Spec => []TradingIsSafe
  BY Inductive, PTL DEF RiskInv

\* Reduced size comes a cooldown, full size two cooldowns after the last breach
\* (position_size_scale).
THEOREM SizeEarned == Spec => []SizeIsEarned
  BY Inductive, PTL DEF RiskInv

\* A halted portfolio does not return to full size in one step (_check_risk).
THEOREM CooldownFirst == Spec => ThroughCooldown
<1>1. ASSUME RiskInv, [Next]_vars, risk.mode = "halted" PROVE risk'.mode # "active"
  <2>1. CASE Handle
    <3>1. PICK r \in Updates(risk) : risk' = CheckRisk(r)
      BY <2>1 DEF Handle
    <3>2. r \in RiskStates /\ r.mode = "halted"
      BY <1>1, UpdatesTyped
    <3> QED
      BY <3>1, <3>2, CheckCases
  <2>2. CASE Tick
    BY <1>1, <2>2 DEF Tick, RiskInv, TypeOK, RiskStates
  <2>3. CASE Move \/ UNCHANGED vars
    BY <1>1, <2>3 DEF Move, vars
  <2> QED
    BY <1>1, <2>1, <2>2, <2>3 DEF Next
<1>2. RiskInv /\ [Next]_vars => [risk.mode = "halted" => risk'.mode # "active"]_vars
  BY <1>1
<1> QED
  BY <1>2, Inductive, PTL DEF Spec, ThroughCooldown
=============================================================================
