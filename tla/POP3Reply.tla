------------------------------ MODULE POP3Reply ------------------------------
(***************************************************************************)
(* readLargeResponse of POP3Response.cpp: the reply to RETR or TOP, read   *)
(* from the socket through two filters that stop at the end mark and one   *)
(* that takes out the doubled dots, until all of them have ended.          *)
(***************************************************************************)
EXTENDS StreamFilters

CONSTANT Messages  \* what RETR may fetch: sequences of lines, without line ends
ASSUME MessagesAssumption == Messages \subseteq Seq(Seq(Byte))

Terminator == <<CR, LF, DOT, CR, LF>>
BareTerminator == <<LF, DOT, LF>>
OK == 43   \* stands for +OK, or -ERR, at the head of the reply
ERR == 45

Lines(message) == FlattenSeq([i \in DOMAIN message |-> message[i] \o CRLF])

\* What the server sends: its answer and the message, then the end mark.  RFC
\* 1939 has a dot before every line that begins with one.  A refusal is one line.
Answer(message) == <<OK, CR, LF>> \o Lines(message)
Wire(message, accepted) ==
  IF accepted THEN WholeFiltered("dot output", Answer(message)) \o <<DOT, CR, LF>> ELSE <<ERR, CR, LF>>

ReplyInit ==
  /\ job \in [kind : {"reply"}, message : Messages, accepted : BOOLEAN]
  /\ text = Wire(job.message, job.accepted)
  /\ at = 0 /\ output = <<>>
  /\ worker = [found5 |-> 0, found3 |-> 0, previous2 |-> 0, previous1 |-> 0,
               temp |-> <<>>, codeDone |-> FALSE, outcome |-> "reading"]

\* One character through stopSequenceFilteredInputStream, which has found a
\* beginning of its sequence: the beginning is written when it goes on in
\* another way.
Stop(sequence, s, c) ==
  IF s.found = Len(sequence) THEN s
  ELSE IF sequence[s.found + 1] = c THEN [s EXCEPT !.found = s.found + 1]
  ELSE LET out == s.out \o SubSeq(sequence, 1, s.found) IN
       IF c = sequence[1] THEN [found |-> 1, out |-> out] ELSE [found |-> 0, out |-> Append(out, c)]

Stopped(sequence, found, data) ==
  LET after[i \in 0 .. Len(data)] ==
        IF i = 0 THEN [found |-> found, out |-> <<>>] ELSE Stop(sequence, after[i - 1], data[i])
  IN after[Len(data)]

\* The loop of readResponseImpl with data that came through the filters: all
\* is kept back until the first line is complete.
Deliver(state, data) ==
  LET temp == state.temp \o data
      ends == {i \in DOMAIN temp : temp[i] = LF}
  IN IF state.codeDone THEN output' = output \o data /\ worker' = state
     ELSE IF ends = {} THEN UNCHANGED output /\ worker' = [state EXCEPT !.temp = temp]
     ELSE IF Head(temp) # OK THEN UNCHANGED output /\ worker' = [state EXCEPT !.outcome = "refused"]
     ELSE /\ output' = SubSeq(temp, Min(ends) + 1, Len(temp))
          /\ worker' = [state EXCEPT !.temp = <<>>, !.codeDone = TRUE]

Reading == job.kind = "reply" /\ worker.outcome = "reading"
Ended == worker.found5 = Len(Terminator) \/ worker.found3 = Len(BareTerminator)

HeldBack == SubSeq(BareTerminator, 1, worker.found3 % Len(BareTerminator))
Last2(data) == SubSeq(<<worker.previous2, worker.previous1>> \o data, Len(data) + 1, Len(data) + 2)

readLargeResponse ==
  /\ Reading /\ ~Ended
  /\ \E n \in Sizes : \E one \in {Stopped(Terminator, worker.found5, Piece(n))} :
     \E two \in {Stopped(BareTerminator, worker.found3, one.out)} :
       /\ Deliver([worker EXCEPT !.found5 = one.found, !.found3 = two.found,
                     !.previous2 = Last2(two.out)[1], !.previous1 = Last2(two.out)[2]],
                  DotUnstuffed(two.out))
       /\ at' = at + n
  /\ UNCHANGED <<job, text>>

\* Slip: what the second filter holds back at the end of its input is lost.
endOfStream_DropsPrefix ==
  /\ Reading /\ Ended
  /\ worker' = [worker EXCEPT !.outcome = "done"]
  /\ UNCHANGED <<job, text, at, output>>

\* Slip: the second filter never says that it is at its end.
endOfStream_NoEof ==
  /\ Reading /\ Ended
  /\ Deliver([worker EXCEPT !.found3 = 0], DotUnstuffed(HeldBack))
  /\ UNCHANGED <<job, text, at>>

\* The first filter is at its end, and the second gives what it held back.
endOfStream ==
  /\ Reading /\ Ended
  /\ Deliver([worker EXCEPT !.outcome = "done"], DotUnstuffed(HeldBack))
  /\ UNCHANGED <<job, text, at>>

\* Nothing more comes, and the end has not been seen.
timeOut ==
  /\ Reading /\ ~Ended /\ AllRead
  /\ worker' = [worker EXCEPT !.outcome = "timed out"]
  /\ UNCHANGED <<job, text, at, output>>

ReplyNext == readLargeResponse \/ endOfStream \/ timeOut
=============================================================================
