--------------------------- MODULE SessionProofs ---------------------------
(***************************************************************************)
(* The server counts its handlers correctly, stop() leaves none behind, and *)
(* only a session changes the broker, for every number of connections,      *)
(* every budget and every script.                                           *)
(***************************************************************************)
EXTENDS Session, FiniteSetTheorems, TLAPS

Afters == {"next", "poll", "finish", "stop"}
Runners == {c \in Conn : Running(c)}

(* The fields of the records that the argument looks at. *)
Shape ==
  /\ setup \in Setups
  /\ DOMAIN client = Conn /\ DOMAIN handler = Conn
  /\ \A c \in Conn :
       /\ "state" \in DOMAIN client[c]
       /\ "pc" \in DOMAIN handler[c] /\ "after" \in DOMAIN handler[c]
       /\ handler[c].after \in Afters
  /\ "pc" \in DOMAIN acceptor

(* A connection that nobody serves yet, made by a client that exists. *)
Unserved(c) == c \in Conn /\ handler[c].pc = "none" /\ client[c].state # "new"

(* A connection is in one place: not made yet, in the backlog, in the hand   *)
(* of the acceptor, or served.                                               *)
Places ==
  /\ backlog \in Seq(Conn)
  /\ \A i \in 1 .. Len(backlog) : Unserved(backlog[i])
  /\ \A i, j \in 1 .. Len(backlog) : i # j => backlog[i] # backlog[j]
  /\ acceptor.pc = "admit" =>
       /\ Unserved(acceptor.accepted)
       /\ \A i \in 1 .. Len(backlog) : backlog[i] # acceptor.accepted
  /\ \A c \in Conn : client[c].state = "new" => handler[c].pc = "none"

(* How far stop() is. *)
Stopping ==
  /\ stopper \in {"joined", "returned"} => acceptor.pc = "done"
  /\ stopper = "returned" => active = 0

Counted == active \in Nat /\ ActiveCounts

IInv == Shape /\ Places /\ Stopping /\ Counted

(* What a step of a running handler does to the state of the argument: it    *)
(* goes on running.                                                          *)
Moves(c) ==
  /\ c \in Conn /\ Running(c)
  /\ \E h : /\ handler' = [handler EXCEPT ![c] = h]
            /\ h.pc \notin {"none", "gone"}
            /\ "pc" \in DOMAIN h /\ "after" \in DOMAIN h /\ h.after \in Afters
  /\ UNCHANGED <<setup, client, acceptor, active, stopper, backlog>>

LEMMA RunnersFinite == IsFiniteSet(Runners)
  BY SessionAssumption, FS_Subset DEF Runners

(* Init establishes the invariant. *)
LEMMA InitIInv == Init => IInv
<1> SUFFICES ASSUME Init PROVE IInv
  OBVIOUS
<1>1. Runners = {}
  BY DEF Runners, Running, Init, NoHandler
<1>2. Shape
  BY DEF Shape, Init, NewClient, NoHandler, Afters
<1>3. Places
  BY DEF Places, Init, NewClient, NoHandler
<1>4. Stopping
  BY DEF Stopping, Init
<1>5. setup.max_connections \in Nat
  BY SessionAssumption DEF Init, Setup
<1>a. Cardinality({}) = 0
  BY FS_EmptySet, Zenon
<1>b. active = 0 /\ Cardinality({c \in Conn : Running(c)}) = 0
  BY <1>1, <1>a, Zenon DEF Runners, Init
<1>6. Counted
  BY <1>b, <1>5 DEF Counted, ActiveCounts
<1> QED
  BY <1>2, <1>3, <1>4, <1>6 DEF IInv

(* A handler that goes on running preserves the invariant. *)
LEMMA MovesIInv ==
  ASSUME IInv, NEW c \in Conn, Moves(c)
  PROVE  IInv'
<1>1. PICK h : /\ handler' = [handler EXCEPT ![c] = h]
               /\ h.pc \notin {"none", "gone"}
               /\ "pc" \in DOMAIN h /\ "after" \in DOMAIN h /\ h.after \in Afters
  BY Zenon DEF Moves
<1>u. /\ setup' = setup /\ client' = client /\ acceptor' = acceptor
      /\ active' = active /\ stopper' = stopper /\ backlog' = backlog
  BY DEF Moves
<1>d. DOMAIN handler = Conn
  BY DEF IInv, Shape
<1>2. \A d \in Conn : handler'[d] = IF d = c THEN h ELSE handler[d]
  BY <1>1, <1>d
<1>3. \A d \in Conn : Running(d)' <=> Running(d)
  BY <1>1, <1>2, Zenon DEF Running, Moves
<1>4. Shape'
  BY <1>1, <1>2, <1>d, <1>u DEF IInv, Shape
<1>5. \A d \in Conn : handler'[d].pc = "none" <=> handler[d].pc = "none"
  BY <1>1, <1>2, Zenon DEF Running, Moves
<1>6. Places'
  BY <1>5, <1>u DEF IInv, Places, Unserved
<1>7. Stopping'
  BY <1>u DEF IInv, Stopping
<1>8. Runners' = Runners
  BY <1>3 DEF Runners
<1>9. Counted'
  BY <1>8, <1>u DEF IInv, Counted, ActiveCounts, Runners
<1> QED
  BY <1>4, <1>6, <1>7, <1>9 DEF IInv

(* The steps of a handler before its last. *)
LEMMA GoesMoves ==
  ASSUME IInv, NEW c \in Conn, NEW h, Goes(c, h), Running(c),
         h.pc \notin {"none", "gone"},
         "pc" \in DOMAIN h, "after" \in DOMAIN h, h.after \in Afters
  PROVE  Moves(c)
  BY DEF Goes, Moves, clientVars, serverVars

(* The handler with a request in hand has the fields of the handler. *)
LEMMA HoldingFields ==
  ASSUME Shape, NEW c \in Conn
  PROVE  /\ DOMAIN Holding(c) = DOMAIN handler[c]
         /\ "pc" \in DOMAIN Holding(c) /\ "after" \in DOMAIN Holding(c)
         /\ Holding(c).after \in Afters
<1> DEFINE H == handler[c]
<1>1. "pc" \in DOMAIN H /\ "after" \in DOMAIN H /\ H.after \in Afters
  BY DEF Shape
<1> QED
  BY <1>1 DEF Holding

(* A record of the handler's fields whose pc is replaced. *)
LEMMA SetPc ==
  ASSUME NEW h, NEW v, "pc" \in DOMAIN h, "after" \in DOMAIN h, h.after \in Afters
  PROVE  /\ [h EXCEPT !.pc = v].pc = v
         /\ "pc" \in DOMAIN [h EXCEPT !.pc = v] /\ "after" \in DOMAIN [h EXCEPT !.pc = v]
         /\ [h EXCEPT !.pc = v].after \in Afters
  OBVIOUS

(* Responds sends the handler to its replies. *)
LEMMA RespondsMoves ==
  ASSUME IInv, NEW c \in Conn, NEW h, NEW replies, NEW after, after \in Afters,
         Responds(c, h, replies, after), Running(c),
         "pc" \in DOMAIN h, "after" \in DOMAIN h
  PROVE  Moves(c)
<1> DEFINE g == [h EXCEPT !.pc = "reply", !.out = replies, !.after = after]
<1>1. /\ g.pc = "reply" /\ g.after = after
      /\ "pc" \in DOMAIN g /\ "after" \in DOMAIN g
  OBVIOUS
<1>2. Goes(c, g)
  BY Zenon DEF Responds
<1> HIDE DEF g
<1> QED
  BY <1>1, <1>2, GoesMoves

(* Every step of Serve leaves its handler running. *)
LEMMA ServeMoves ==
  ASSUME IInv, NEW c \in Conn, Serve(c)
  PROVE  Moves(c)
<1> DEFINE H == handler[c]
<1>s. Shape
  BY DEF IInv
<1>f. "pc" \in DOMAIN H /\ "after" \in DOMAIN H /\ H.after \in Afters
  BY <1>s DEF Shape
<1>h. /\ "pc" \in DOMAIN Holding(c) /\ "after" \in DOMAIN Holding(c)
      /\ Holding(c).after \in Afters
  BY <1>s, HoldingFields, Zenon
<1>d. ASSUME NEW types, NEW forms, Decodes(c, types, forms)
      PROVE  Running(c)
  BY <1>d DEF Decodes, Running
<1>a. "next" \in Afters /\ "poll" \in Afters /\ "finish" \in Afters /\ "stop" \in Afters
  BY DEF Afters
<1>1. CASE Receive(c)
  <2>1. Running(c)
    BY <1>1 DEF Receive, Running
  <2>2. CASE \E n \in Chunks(toServer[c]) :
               LET h == [handler[c] EXCEPT !.decoder = feed(@, SubSeq(toServer[c], 1, n))]
               IN  IF h.decoder.failed THEN Responds(c, h, <<Error(0)>>, "finish")
                   ELSE Goes(c, [h EXCEPT !.pc = "next"])
    <3> PICK n \in Chunks(toServer[c]) :
               LET h == [handler[c] EXCEPT !.decoder = feed(@, SubSeq(toServer[c], 1, n))]
               IN  IF h.decoder.failed THEN Responds(c, h, <<Error(0)>>, "finish")
                   ELSE Goes(c, [h EXCEPT !.pc = "next"])
      BY <2>2, Zenon
    <3> DEFINE h == [handler[c] EXCEPT !.decoder = feed(@, SubSeq(toServer[c], 1, n))]
    <3>1. "pc" \in DOMAIN h /\ "after" \in DOMAIN h /\ h.after \in Afters
      BY <1>f
    <3>2. Responds(c, h, <<Error(0)>>, "finish") \/ Goes(c, [h EXCEPT !.pc = "next"])
      BY Zenon
    <3> HIDE DEF h
    <3>3. CASE Responds(c, h, <<Error(0)>>, "finish")
      BY <3>1, <3>3, <2>1, <1>a, RespondsMoves, Zenon
    <3>4. CASE Goes(c, [h EXCEPT !.pc = "next"])
      BY <3>1, <3>4, <2>1, SetPc, GoesMoves
    <3> QED
      BY <3>2, <3>3, <3>4
  <2>3. CASE Goes(c, [handler[c] EXCEPT !.pc = "finish"])
    BY <1>f, <2>1, <2>3, SetPc, GoesMoves
  <2> QED
    BY <1>1, <2>2, <2>3, Zenon DEF Receive
<1>2. CASE NoFrame(c)
  <2>1. Running(c)
    BY <1>2 DEF NoFrame, Running
  <2>2. CASE Responds(c, [handler[c] EXCEPT !.decoder.failed = TRUE], <<Error(0)>>, "finish")
    <3> DEFINE h == [handler[c] EXCEPT !.decoder.failed = TRUE]
    <3>1. "pc" \in DOMAIN h /\ "after" \in DOMAIN h
      BY <1>f
    <3> HIDE DEF h
    <3>2. Responds(c, h, <<Error(0)>>, "finish")
      BY <2>2 DEF h
    <3> QED
      BY <3>1, <3>2, <2>1, <1>a, RespondsMoves, Zenon
  <2>3. CASE Goes(c, [handler[c] EXCEPT !.pc = "poll"])
    BY <1>f, <2>1, <2>3, SetPc, GoesMoves
  <2> QED
    BY <1>2, <2>2, <2>3, Zenon DEF NoFrame
<1>3. CASE Ungreeted(c)
  BY <1>3, <1>a, <1>d, <1>h, RespondsMoves, Zenon DEF Ungreeted
<1>4. CASE RefuseHello(c)
  BY <1>4, <1>a, <1>d, <1>h, RespondsMoves, Zenon DEF RefuseHello
<1>5. CASE HelloFenced(c)
  <2>1. Running(c)
    BY <1>5, <1>d, Zenon DEF HelloFenced
  <2>2. CASE Responds(c, Holding(c), Refusals(Holding(c).frame), "poll")
    BY <2>1, <2>2, <1>a, <1>h, RespondsMoves, Zenon
  <2>3. CASE Goes(c, [Holding(c) EXCEPT !.pc = "status"])
    BY <1>h, <2>1, <2>3, SetPc, GoesMoves
  <2> QED
    BY <1>5, <2>2, <2>3, Zenon DEF HelloFenced
<1>6. CASE HelloStatus(c)
  <2> DEFINE h == [handler[c] EXCEPT !.greeted = TRUE]
  <2>1. "pc" \in DOMAIN h /\ "after" \in DOMAIN h
    BY <1>f
  <2>2. Running(c)
    BY <1>6 DEF HelloStatus, Running
  <2>3. Responds(c, h, <<[Success(handler[c].frame.corr) EXCEPT !.read = version]>>, "next")
    BY <1>6, Zenon DEF HelloStatus
  <2> HIDE DEF h
  <2> QED
    BY <2>1, <2>2, <2>3, <1>a, RespondsMoves, Zenon
<1>7. CASE Malformed(c)
  <2>1. Running(c)
    BY <1>7, <1>d, Zenon DEF Malformed
  <2>2. PICK after \in Afters :
          Responds(c, Holding(c), Refusals(Holding(c).frame), after)
    BY <1>7, <1>a DEF Malformed
  <2> QED
    BY <2>1, <2>2, <1>h, RespondsMoves, Zenon
<1>8. CASE Change(c)
  <2>1. Running(c)
    BY <1>8, <1>d, Zenon DEF Change
  <2>2. PICK replies : Responds(c, Holding(c), replies, "next")
    BY <1>8, Zenon DEF Change
  <2> QED
    BY <2>1, <2>2, <1>a, <1>h, RespondsMoves, Zenon
<1>9. CASE Query(c)
  BY <1>9, <1>a, <1>d, <1>h, RespondsMoves, Zenon DEF Query
<1>10. CASE Submit(c)
  <2> DEFINE h == [Holding(c) EXCEPT !.pc = "submit", !.seen = Batch]
  <2>1. Running(c) /\ Goes(c, h)
    BY <1>10, <1>d, Zenon DEF Submit
  <2>2. /\ h.pc = "submit" /\ h.after \in Afters
        /\ "pc" \in DOMAIN h /\ "after" \in DOMAIN h
    BY <1>h
  <2> HIDE DEF h
  <2> QED
    BY <2>1, <2>2, GoesMoves
<1>11. CASE SubmitEntry(c)
  <2>1. PICK accepted \in {0, 1} :
          LET h == [handler[c] EXCEPT !.seen = @ - 1, !.did = @ + accepted]
          IN  \/ Goes(c, h)
              \/ Responds(c, h, <<[Success(h.frame.corr) EXCEPT !.did = h.did]>>, "next")
    BY <1>11, Zenon DEF SubmitEntry
  <2> DEFINE h == [handler[c] EXCEPT !.seen = @ - 1, !.did = @ + accepted]
  <2>2. /\ h.pc = handler[c].pc /\ h.after \in Afters
        /\ "pc" \in DOMAIN h /\ "after" \in DOMAIN h
    BY <1>f
  <2>3. handler[c].pc = "submit" /\ Running(c)
    BY <1>11 DEF SubmitEntry, Running
  <2>4. Goes(c, h) \/ \E replies : Responds(c, h, replies, "next")
    BY <2>1, Zenon
  <2> HIDE DEF h
  <2>5. CASE Goes(c, h)
    BY <2>2, <2>3, <2>5, GoesMoves
  <2>6. CASE \E replies : Responds(c, h, replies, "next")
    BY <2>2, <2>3, <2>6, <1>a, RespondsMoves, Zenon
  <2> QED
    BY <2>4, <2>5, <2>6
<1>12. CASE Arbitrate(c)
  <2> DEFINE h == [Holding(c) EXCEPT !.pc = "grants", !.seen = version + 1, !.did = 1]
  <2>1. Running(c)
    BY <1>12, <1>d, Zenon DEF Arbitrate
  <2>2. /\ h.pc = "grants" /\ h.after \in Afters
        /\ "pc" \in DOMAIN h /\ "after" \in DOMAIN h
    BY <1>h
  <2>3. (\E replies : Responds(c, Holding(c), replies, "next")) \/ Goes(c, h)
    BY <1>12, Zenon DEF Arbitrate
  <2> HIDE DEF h
  <2>4. CASE Goes(c, h)
    BY <2>1, <2>2, <2>4, GoesMoves
  <2>5. CASE \E replies : Responds(c, Holding(c), replies, "next")
    BY <2>1, <2>5, <1>a, <1>h, RespondsMoves, Zenon
  <2> QED
    BY <2>3, <2>4, <2>5
<1>13. CASE ListGrants(c)
  <2>1. PICK replies : Responds(c, handler[c], replies, "next")
    BY <1>13, Zenon DEF ListGrants
  <2>2. Running(c)
    BY <1>13 DEF ListGrants, Running
  <2> QED
    BY <2>1, <2>2, <1>a, <1>f, RespondsMoves, Zenon
<1>14. CASE FenceBefore(c)
  <2> DEFINE h == [Holding(c) EXCEPT !.pc = "fence", !.seen = IF Victim \in fenced THEN 1 ELSE 0]
  <2>1. Running(c) /\ Goes(c, h)
    BY <1>14, <1>d, Zenon DEF FenceBefore
  <2>2. /\ h.pc = "fence" /\ h.after \in Afters
        /\ "pc" \in DOMAIN h /\ "after" \in DOMAIN h
    BY <1>h
  <2> HIDE DEF h
  <2> QED
    BY <2>1, <2>2, GoesMoves
<1>15. CASE Fence(c)
  <2>1. PICK replies : Responds(c, handler[c], replies, "next")
    BY <1>15, Zenon DEF Fence
  <2>2. Running(c)
    BY <1>15 DEF Fence, Running
  <2> QED
    BY <2>1, <2>2, <1>a, <1>f, RespondsMoves, Zenon
<1>16. CASE Shutdown(c)
  BY <1>16, <1>a, <1>d, <1>h, RespondsMoves, Zenon DEF Shutdown
<1> QED
  BY <1>1, <1>2, <1>3, <1>4, <1>5, <1>6, <1>7, <1>8, <1>9, <1>10, <1>11, <1>12, <1>13,
     <1>14, <1>15, <1>16, Zenon DEF Serve

(* PollStop and Send leave their handler running too. *)
LEMMA PollStopMoves ==
  ASSUME IInv, NEW c \in Conn, PollStop(c)
  PROVE  Moves(c)
<1>1. "pc" \in DOMAIN handler[c] /\ "after" \in DOMAIN handler[c] /\ handler[c].after \in Afters
  BY DEF IInv, Shape
<1>2. Running(c) /\ Goes(c, [handler[c] EXCEPT !.pc = "finish"])
  BY DEF PollStop, Running
<1> QED
  BY <1>1, <1>2, SetPc, GoesMoves

LEMMA SendMoves ==
  ASSUME IInv, NEW c \in Conn, Send(c)
  PROVE  Moves(c)
<1> DEFINE H == handler[c]
<1>1. "pc" \in DOMAIN H /\ "after" \in DOMAIN H /\ H.after \in Afters
  BY DEF IInv, Shape
<1>2. PICK sent \in BOOLEAN : handler' = [handler EXCEPT ![c] = AfterSend(H, sent)]
  BY Zenon DEF Send
<1>3. Running(c) /\ UNCHANGED <<setup, client, acceptor, active, stopper, backlog>>
  BY DEF Send, Running, clientVars
<1>4. /\ "pc" \in DOMAIN AfterSend(H, sent) /\ "after" \in DOMAIN AfterSend(H, sent)
      /\ AfterSend(H, sent).after \in Afters
  BY <1>1 DEF AfterSend, Afters
<1>5. AfterSend(H, sent).pc \notin {"none", "gone"}
  BY <1>1 DEF AfterSend, Afters
<1> QED
  BY <1>2, <1>3, <1>4, <1>5, Zenon DEF Moves

(* A step of the clients alone, after which no client is new that was not. *)
LEMMA ClientIInv ==
  ASSUME IInv, UNCHANGED <<setup, handler, acceptor, active, stopper, backlog>>,
         DOMAIN client' = Conn,
         \A c \in Conn : /\ "state" \in DOMAIN client'[c]
                         /\ client'[c].state = "new" => client[c].state = "new"
  PROVE  IInv'
<1>1. Shape'
  BY DEF IInv, Shape
<1>2. Places'
  BY DEF IInv, Places, Unserved
<1>3. Stopping'
  BY DEF IInv, Stopping
<1>4. \A c \in Conn : Running(c)' <=> Running(c)
  BY DEF Running
<1>5. Counted'
  BY <1>4 DEF IInv, Counted, ActiveCounts
<1> QED
  BY <1>1, <1>2, <1>3, <1>5 DEF IInv

(* A client that returns from a call. *)
LEMMA ReturnIInv ==
  ASSUME IInv, NEW c \in Conn, NEW decoder, NEW answer, Return(c, decoder, answer),
         UNCHANGED <<setup, handler, acceptor, active, stopper, backlog>>
  PROVE  IInv'
<1>1. DOMAIN client = Conn /\ \A d \in Conn : "state" \in DOMAIN client[d]
  BY DEF IInv, Shape
<1>2. client' = [client EXCEPT ![c].state = "idle", ![c].decoder = decoder]
  BY DEF Return
<1>3. /\ DOMAIN client' = Conn
      /\ \A d \in Conn : /\ "state" \in DOMAIN client'[d]
                         /\ client'[d].state = "new" => client[d].state = "new"
  BY <1>1, <1>2
<1> QED
  BY <1>3, ClientIInv

LEMMA TakeReplyIInv ==
  ASSUME IInv, NEW c \in Conn, TakeReply(c)
  PROVE  IInv'
<1>1. PICK decoder, answer : Return(c, decoder, answer)
  BY Zenon DEF TakeReply
<1>2. UNCHANGED <<setup, handler, acceptor, active, stopper, backlog>>
  BY DEF TakeReply, serverVars
<1> QED
  BY <1>1, <1>2, ReturnIInv, Zenon

LEMMA ClientReceiveIInv ==
  ASSUME IInv, NEW c \in Conn, ClientReceive(c)
  PROVE  IInv'
<1>1. UNCHANGED <<setup, handler, acceptor, active, stopper, backlog>>
  BY DEF ClientReceive, serverVars
<1>2. \/ \E decoder, answer : Return(c, decoder, answer)
      \/ \E d : client' = [client EXCEPT ![c].decoder = d]
  BY Zenon DEF ClientReceive
<1>3. CASE \E d : client' = [client EXCEPT ![c].decoder = d]
  <2>1. PICK d : client' = [client EXCEPT ![c].decoder = d]
    BY <1>3
  <2>2. DOMAIN client = Conn /\ \A e \in Conn : "state" \in DOMAIN client[e]
    BY DEF IInv, Shape
  <2>3. /\ DOMAIN client' = Conn
        /\ \A e \in Conn : /\ "state" \in DOMAIN client'[e]
                           /\ client'[e].state = "new" => client[e].state = "new"
    BY <2>1, <2>2
  <2> QED
    BY <1>1, <2>3, ClientIInv
<1> QED
  BY <1>1, <1>2, <1>3, ReturnIInv, Zenon

LEMMA CallIInv ==
  ASSUME IInv, NEW c \in Conn, Call(c)
  PROVE  IInv'
<1>1. UNCHANGED <<setup, handler, acceptor, active, stopper, backlog>>
  BY DEF Call, serverVars
<1>2. PICK s, n, r :
        /\ client' = [client EXCEPT ![c].state = s, ![c].corr = n, ![c].request = r]
        /\ s \in {"waiting", "idle"}
  <2>1. PICK request, cells :
          client' = [client EXCEPT
            ![c].state = IF conn[c] # "closed" THEN "waiting" ELSE "idle",
            ![c].corr = client[c].corr + 1, ![c].request = request]
    BY Zenon DEF Call
  <2>2. (IF conn[c] # "closed" THEN "waiting" ELSE "idle") \in {"waiting", "idle"}
    OBVIOUS
  <2> QED
    BY <2>1, <2>2, Zenon
<1>3. DOMAIN client = Conn /\ \A e \in Conn : "state" \in DOMAIN client[e]
  BY DEF IInv, Shape
<1>4. /\ DOMAIN client' = Conn
      /\ \A e \in Conn : /\ "state" \in DOMAIN client'[e]
                         /\ client'[e].state = "new" => client[e].state = "new"
  BY <1>2, <1>3
<1> QED
  BY <1>1, <1>4, ClientIInv

LEMMA CloseIInv ==
  ASSUME IInv, NEW c \in Conn, Close(c)
  PROVE  IInv'
<1>1. UNCHANGED <<setup, handler, acceptor, active, stopper, backlog>>
  BY DEF Close, serverVars
<1>2. DOMAIN client = Conn /\ \A e \in Conn : "state" \in DOMAIN client[e]
  BY DEF IInv, Shape
<1>3. /\ DOMAIN client' = Conn
      /\ \A e \in Conn : /\ "state" \in DOMAIN client'[e]
                         /\ client'[e].state = "new" => client[e].state = "new"
  BY <1>2 DEF Close
<1> QED
  BY <1>1, <1>3, ClientIInv

(* Connecting puts a connection that is nowhere else into the backlog. *)
LEMMA ConnectIInv ==
  ASSUME IInv, NEW c \in Conn, Connect(c)
  PROVE  IInv'
<1>u. UNCHANGED <<setup, handler, acceptor, active, stopper>>
  BY DEF Connect
<1>1. DOMAIN client = Conn /\ \A e \in Conn : "state" \in DOMAIN client[e]
  BY DEF IInv, Shape
<1>n. client[c].state = "new"
  BY DEF Connect
<1>2. CASE /\ client' = [client EXCEPT ![c].state = "idle"]
           /\ backlog' = Append(backlog, c)
  <2>1. /\ DOMAIN client' = Conn
        /\ \A e \in Conn : /\ "state" \in DOMAIN client'[e]
                           /\ client'[e].state = IF e = c THEN "idle" ELSE client[e].state
    BY <1>1, <1>2
  <2>2. Shape'
    BY <1>u, <2>1 DEF IInv, Shape
  <2>3. /\ backlog \in Seq(Conn) /\ backlog' \in Seq(Conn) /\ Len(backlog') = Len(backlog) + 1
        /\ \A i \in 1 .. Len(backlog') :
             backlog'[i] = IF i <= Len(backlog) THEN backlog[i] ELSE c
    BY <1>2 DEF IInv, Places
  <2>4. \A e \in Conn : Unserved(e) => Unserved(e)' /\ e # c
    BY <1>n, <1>u, <2>1 DEF Unserved
  <2>5. Unserved(c)'
    BY <1>n, <1>u, <2>1 DEF Unserved, IInv, Places
  <2>6. \A i \in 1 .. Len(backlog) : backlog[i] \in Conn /\ Unserved(backlog[i])
    BY DEF IInv, Places
  <2>7. \A i \in 1 .. Len(backlog') : Unserved(backlog[i])'
    BY <2>3, <2>4, <2>5, <2>6 DEF Unserved
  <2>8. \A i, j \in 1 .. Len(backlog') : i # j => backlog'[i] # backlog'[j]
    <3>1. \A i, j \in 1 .. Len(backlog) : i # j => backlog[i] # backlog[j]
      BY DEF IInv, Places
    <3>2. \A i \in 1 .. Len(backlog) : backlog[i] # c
      BY <2>4, <2>6
    <3>3. Len(backlog) \in Nat
      BY <2>3
    <3> QED
      BY <2>3, <3>1, <3>2, <3>3
  <2>9. acceptor.pc = "admit" =>
          /\ Unserved(acceptor.accepted)' /\ acceptor.accepted # c
          /\ \A i \in 1 .. Len(backlog) : backlog[i] # acceptor.accepted
    BY <2>4, <1>u DEF IInv, Places, Unserved
  <2>10. acceptor'.pc = "admit" =>
          /\ Unserved(acceptor.accepted)'
          /\ \A i \in 1 .. Len(backlog') : backlog'[i] # acceptor'.accepted
    BY <1>u, <2>3, <2>9
  <2>11. \A e \in Conn : client'[e].state = "new" => handler'[e].pc = "none"
    BY <1>u, <2>1 DEF IInv, Places
  <2>12. Places'
    BY <1>u, <2>3, <2>7, <2>8, <2>10, <2>11 DEF Places, Unserved
  <2>13. Stopping'
    BY <1>u DEF IInv, Stopping
  <2>14. \A e \in Conn : Running(e)' <=> Running(e)
    BY <1>u DEF Running
  <2>15. Counted'
    BY <1>u, <2>14 DEF IInv, Counted, ActiveCounts
  <2> QED
    BY <2>2, <2>12, <2>13, <2>15 DEF IInv
<1>3. CASE /\ client' = [client EXCEPT ![c].state = "closed"]
           /\ backlog' = backlog
  <2>1. /\ DOMAIN client' = Conn
        /\ \A e \in Conn : /\ "state" \in DOMAIN client'[e]
                           /\ client'[e].state = "new" => client[e].state = "new"
    BY <1>1, <1>3
  <2> QED
    BY <1>u, <1>3, <2>1, ClientIInv
<1> QED
  BY <1>2, <1>3 DEF Connect

(* The acceptor takes the head of the backlog, and it is nowhere else. *)
LEMMA AcceptOneIInv ==
  ASSUME IInv, AcceptOne
  PROVE  IInv'
<1>u. UNCHANGED <<setup, handler, client, active, stopper>>
  BY DEF AcceptOne, clientVars
<1>1. /\ acceptor.pc = "accept" /\ backlog # <<>>
      /\ acceptor' = [pc |-> "admit", accepted |-> Head(backlog)]
      /\ backlog' = Tail(backlog)
  BY DEF AcceptOne
<1>2. backlog \in Seq(Conn)
  BY DEF IInv, Places
<1>3. /\ backlog' \in Seq(Conn) /\ Len(backlog') = Len(backlog) - 1 /\ Len(backlog) \in Nat \ {0}
      /\ \A i \in 1 .. Len(backlog') : backlog'[i] = backlog[i + 1]
      /\ acceptor'.accepted = backlog[1]
  BY <1>1, <1>2
<1>4. Shape'
  BY <1>u, <1>1 DEF IInv, Shape
<1>5. \A i \in 1 .. Len(backlog) : Unserved(backlog[i])
  BY DEF IInv, Places
<1>6. \A i, j \in 1 .. Len(backlog) : i # j => backlog[i] # backlog[j]
  BY DEF IInv, Places
<1>7. \A i \in 1 .. Len(backlog') : Unserved(backlog[i])'
  BY <1>u, <1>3, <1>5 DEF Unserved
<1>8. \A i, j \in 1 .. Len(backlog') : i # j => backlog'[i] # backlog'[j]
  BY <1>3, <1>6
<1>9. Unserved(acceptor.accepted)'
  BY <1>u, <1>3, <1>5 DEF Unserved
<1>10. \A i \in 1 .. Len(backlog') : backlog'[i] # acceptor'.accepted
  BY <1>3, <1>6
<1>11. Places'
  BY <1>u, <1>3, <1>7, <1>8, <1>9, <1>10 DEF IInv, Places
<1>12. Stopping'
  BY <1>u, <1>1 DEF IInv, Stopping
<1>13. \A e \in Conn : Running(e)' <=> Running(e)
  BY <1>u DEF Running
<1>14. Counted'
  BY <1>u, <1>13 DEF IInv, Counted, ActiveCounts
<1> QED
  BY <1>4, <1>11, <1>12, <1>14 DEF IInv

(* The acceptor's budget: one more handler, counted, or none. *)
LEMMA AdmitIInv ==
  ASSUME IInv, Admit
  PROVE  IInv'
<1> DEFINE a == acceptor.accepted
<1>u. UNCHANGED <<setup, client, stopper, backlog>>
  BY DEF Admit, clientVars
<1>1. /\ acceptor.pc = "admit" /\ acceptor' = [acceptor EXCEPT !.pc = "accept"]
      /\ "pc" \in DOMAIN acceptor
  BY DEF Admit, IInv, Shape
<1>2. acceptor'.pc = "accept" /\ "pc" \in DOMAIN acceptor'
  BY <1>1
<1>3. Unserved(a) /\ \A i \in 1 .. Len(backlog) : backlog[i] # a
  BY <1>1 DEF IInv, Places
<1>4. stopper \notin {"joined", "returned"}
  BY <1>1 DEF IInv, Stopping
<1>5. Stopping'
  BY <1>4, <1>u DEF Stopping
<1>6. CASE active >= setup.max_connections
  <2>1. UNCHANGED <<active, handler>>
    BY <1>6 DEF Admit
  <2>2. Shape'
    BY <1>u, <1>2, <2>1 DEF IInv, Shape
  <2>3. Places'
    BY <1>u, <1>2, <2>1 DEF IInv, Places, Unserved
  <2>4. \A e \in Conn : Running(e)' <=> Running(e)
    BY <2>1 DEF Running
  <2>5. Counted'
    BY <1>u, <2>1, <2>4 DEF IInv, Counted, ActiveCounts
  <2> QED
    BY <1>5, <2>2, <2>3, <2>5 DEF IInv
<1>7. CASE ~(active >= setup.max_connections)
  <2>1. active' = active + 1 /\ handler' = [handler EXCEPT ![a].pc = "poll"]
    BY <1>7 DEF Admit
  <2>2. DOMAIN handler = Conn /\ a \in Conn
    BY <1>3 DEF IInv, Shape, Unserved
  <2>3. \A e \in Conn : /\ "pc" \in DOMAIN handler[e] /\ "after" \in DOMAIN handler[e]
                        /\ handler[e].after \in Afters
    BY DEF IInv, Shape
  <2>4. /\ DOMAIN handler' = Conn
        /\ \A e \in Conn :
             /\ "pc" \in DOMAIN handler'[e] /\ "after" \in DOMAIN handler'[e]
             /\ handler'[e].after = handler[e].after
             /\ handler'[e].pc = IF e = a THEN "poll" ELSE handler[e].pc
    BY <2>1, <2>2, <2>3
  <2>5. Shape'
    BY <1>u, <1>2, <2>3, <2>4 DEF IInv, Shape
  <2>6. handler[a].pc = "none" /\ client[a].state # "new"
    BY <1>3 DEF Unserved
  <2>7. Places'
    BY <1>u, <1>2, <1>3, <2>4, <2>6 DEF IInv, Places, Unserved
  <2>8. a \notin Runners
    BY <2>6 DEF Runners, Running
  <2>9. Runners' = Runners \cup {a}
    BY <2>2, <2>4 DEF Runners, Running
  <2>10. Cardinality(Runners') = Cardinality(Runners) + 1
    BY <2>8, <2>9, RunnersFinite, FS_AddElement
  <2>11. active \in Nat /\ active = Cardinality(Runners)
    BY DEF IInv, Counted, ActiveCounts, Runners
  <2>12. active' = Cardinality({c \in Conn : Running(c)})'
    BY <2>1, <2>10, <2>11 DEF Runners
  <2>13. setup.max_connections \in Nat
    BY SessionAssumption DEF IInv, Shape, Setup
  <2>14. active' <= setup'.max_connections /\ active' \in Nat
    BY <1>7, <1>u, <2>1, <2>11, <2>13
  <2>15. Counted'
    BY <2>12, <2>14 DEF Counted, ActiveCounts
  <2> QED
    BY <1>5, <2>5, <2>7, <2>15 DEF IInv
<1> QED
  BY <1>6, <1>7

(* A handler that ends is no longer counted. *)
LEMMA FinishIInv ==
  ASSUME IInv, NEW c \in Conn, Finish(c)
  PROVE  IInv'
<1>u. UNCHANGED <<setup, client, stopper, backlog, acceptor>>
  BY DEF Finish, clientVars
<1>1. /\ handler[c].pc = "finish" /\ handler' = [handler EXCEPT ![c].pc = "gone"]
      /\ active' = IF active > 0 THEN active - 1 ELSE active
  BY DEF Finish
<1>2. /\ DOMAIN handler = Conn
      /\ \A e \in Conn : /\ "pc" \in DOMAIN handler[e] /\ "after" \in DOMAIN handler[e]
                         /\ handler[e].after \in Afters
  BY DEF IInv, Shape
<1>3. /\ DOMAIN handler' = Conn
      /\ \A e \in Conn :
           /\ "pc" \in DOMAIN handler'[e] /\ "after" \in DOMAIN handler'[e]
           /\ handler'[e].after = handler[e].after
           /\ handler'[e].pc = IF e = c THEN "gone" ELSE handler[e].pc
  BY <1>1, <1>2
<1>4. Shape'
  BY <1>u, <1>2, <1>3 DEF IInv, Shape
<1>5. Places'
  BY <1>u, <1>1, <1>3 DEF IInv, Places, Unserved
<1>6. c \in Runners
  BY <1>1 DEF Runners, Running
<1>7. Runners' = Runners \ {c}
  BY <1>3 DEF Runners, Running
<1>8. Cardinality(Runners') = Cardinality(Runners) - 1
  BY <1>6, <1>7, RunnersFinite, FS_RemoveElement
<1>9. Cardinality(Runners') \in Nat
  BY <1>7, RunnersFinite, FS_RemoveElement, FS_CardinalityType
<1>10. active \in Nat /\ active = Cardinality(Runners) /\ active <= setup.max_connections
  BY DEF IInv, Counted, ActiveCounts, Runners
<1>11. active' = active - 1 /\ active' \in Nat /\ active > 0
  BY <1>1, <1>8, <1>9, <1>10
<1>12. active' = Cardinality({e \in Conn : Running(e)})'
  BY <1>8, <1>10, <1>11 DEF Runners
<1>13. setup.max_connections \in Nat
  BY SessionAssumption DEF IInv, Shape, Setup
<1>14. Counted'
  BY <1>u, <1>10, <1>11, <1>12, <1>13 DEF Counted, ActiveCounts
<1>15. Stopping'
  BY <1>u, <1>11 DEF IInv, Stopping
<1> QED
  BY <1>4, <1>5, <1>14, <1>15 DEF IInv

(* The acceptor's end and the steps of stop() touch no handler. *)
LEMMA ThreadsIInv ==
  ASSUME IInv, UNCHANGED <<setup, client, handler, active>>,
         AcceptorExit \/ StopFlag \/ Stop
  PROVE  IInv'
<1>r. \A e \in Conn : Running(e)' <=> Running(e)
  BY DEF Running
<1>c. Counted'
  BY <1>r DEF IInv, Counted, ActiveCounts
<1>1. CASE AcceptorExit
  <2>1. /\ acceptor' = [acceptor EXCEPT !.pc = "done"] /\ "pc" \in DOMAIN acceptor
        /\ UNCHANGED <<stopper, backlog>>
    BY <1>1 DEF AcceptorExit, IInv, Shape
  <2>2. acceptor'.pc = "done" /\ "pc" \in DOMAIN acceptor'
    BY <2>1
  <2>3. Shape' /\ Stopping'
    BY <2>1, <2>2 DEF IInv, Shape, Stopping
  <2>4. Places'
    BY <2>1, <2>2 DEF IInv, Places, Unserved
  <2> QED
    BY <1>c, <2>3, <2>4 DEF IInv
<1>2. CASE StopFlag \/ StopJoin \/ StopDrained
  <2>1. UNCHANGED <<acceptor, backlog>>
    BY <1>2 DEF StopFlag, StopJoin, StopDrained
  <2>2. Shape'
    BY <2>1 DEF IInv, Shape
  <2>3. Places'
    BY <2>1 DEF IInv, Places, Unserved
  <2>4. Stopping'
    BY <1>2, <2>1 DEF IInv, Stopping, StopFlag, StopJoin, StopDrained
  <2> QED
    BY <1>c, <2>2, <2>3, <2>4 DEF IInv
<1>3. CASE StopListener
  <2>1. UNCHANGED acceptor /\ backlog' = <<>> /\ stopper' = "closed"
    BY <1>3 DEF StopListener
  <2>2. Shape' /\ Stopping'
    BY <2>1 DEF IInv, Shape, Stopping
  <2>3. Places'
    BY <2>1 DEF IInv, Places, Unserved
  <2> QED
    BY <1>c, <2>2, <2>3 DEF IInv
<1> QED
  BY <1>1, <1>2, <1>3 DEF Stop

(* Every step preserves the invariant. *)
LEMMA NextIInv ==
  ASSUME IInv, [Next]_vars
  PROVE  IInv'
<1>1. CASE UNCHANGED vars
  <2>1. UNCHANGED <<setup, client, handler, acceptor, active, stopper, backlog>>
    BY <1>1, Zenon DEF vars, clientVars, serverVars
  <2>2. DOMAIN client = Conn /\ \A c \in Conn : "state" \in DOMAIN client[c]
    BY DEF IInv, Shape
  <2> QED
    BY <2>1, <2>2, ClientIInv
<1>2. ASSUME NEW c \in Conn, Handle(c)
      PROVE  IInv'
  BY <1>2, PollStopMoves, ServeMoves, SendMoves, MovesIInv, FinishIInv, Zenon DEF Handle
<1>3. ASSUME NEW c \in Conn, Connect(c) \/ Call(c) \/ Exchange(c) \/ Close(c)
      PROVE  IInv'
  BY <1>3, ConnectIInv, CallIInv, TakeReplyIInv, ClientReceiveIInv, CloseIInv, Zenon
     DEF Exchange
<1>4. ASSUME AcceptorExit \/ StopFlag \/ Stop
      PROVE  IInv'
  <2>1. UNCHANGED <<setup, client, handler, active>>
    BY <1>4 DEF AcceptorExit, StopFlag, Stop, StopListener, StopJoin, StopDrained, clientVars
  <2> QED
    BY <1>4, <2>1, ThreadsIInv
<1> QED
  BY <1>1, <1>2, <1>3, <1>4, AcceptOneIInv, AdmitIInv, Zenon DEF Next, Accept

(* The inductive invariant holds in every reachable state. *)
THEOREM SessionInvariant == Spec => []IInv
  BY InitIInv, NextIInv, PTL DEF Spec

(* However connections are made, refused, served and dropped, the server's   *)
(* counter is the number of handler threads that run, and max_connections    *)
(* bounds it (server.cpp, start and finish).                                 *)
THEOREM ConnectionsAreCounted == Spec => []ActiveCounts
<1>1. IInv => ActiveCounts
  BY DEF IInv, Counted
<1> QED
  BY <1>1, SessionInvariant, PTL

(* When stop() has returned no acceptor and no handler runs (server.cpp,     *)
(* stop), whatever the clients do and however the threads interleave.        *)
THEOREM StoppedServerIsQuiet == Spec => []StopIsQuiet
<1>1. ASSUME IInv PROVE StopIsQuiet
  <2> SUFFICES ASSUME stopper = "returned" PROVE acceptor.pc = "done" /\ Runners = {}
    BY DEF StopIsQuiet, Runners
  <2>1. acceptor.pc = "done" /\ active = 0
    BY <1>1 DEF IInv, Stopping
  <2>2. Cardinality(Runners) = 0
    BY <1>1, <2>1 DEF IInv, Counted, ActiveCounts, Runners
  <2> QED
    BY <2>1, <2>2, RunnersFinite, FS_EmptySet
<1> QED
  BY <1>1, SessionInvariant, PTL

-----------------------------------------------------------------------------
(* The handshake.  Between the broker calls of one request a handler is       *)
(* inside that request, and its session exists.                               *)

Inside == {"submit", "grants", "fence"}

Greeted ==
  /\ DOMAIN effects = Conn
  /\ \A c \in Conn :
       /\ "greeted" \in DOMAIN handler[c]
       /\ handler[c].pc \in Inside => handler[c].greeted
       /\ \A n \in 1 .. MaxCalls(c) : effects[c][n] > 0 => handler[c].greeted

(* Nobody's calls succeed but those of a session that exists. *)
Earned(c, h) ==
  /\ DOMAIN effects' = Conn
  /\ \/ effects' = effects
     \/ h.greeted /\ \A d \in Conn \ {c} : effects'[d] = effects[d]

(* What a step of a handler does to sessions: it may only create one. *)
Keeps(c) ==
  \E h : /\ handler' = [handler EXCEPT ![c] = h]
         /\ "greeted" \in DOMAIN h
         /\ handler[c].greeted => h.greeted
         /\ h.pc \in Inside => h.greeted
         /\ Earned(c, h)
         /\ setup' = setup

LEMMA KeepsGreeted ==
  ASSUME IInv, Greeted, NEW c \in Conn, Keeps(c)
  PROVE  Greeted'
<1>1. PICK h : /\ handler' = [handler EXCEPT ![c] = h]
               /\ "greeted" \in DOMAIN h
               /\ handler[c].greeted => h.greeted
               /\ h.pc \in Inside => h.greeted
               /\ Earned(c, h)
               /\ setup' = setup
  BY Zenon DEF Keeps
<1>2. \A d \in Conn : handler'[d] = IF d = c THEN h ELSE handler[d]
  BY <1>1 DEF IInv, Shape
<1>3. \A d \in Conn : MaxCalls(d)' = MaxCalls(d)
  BY <1>1 DEF MaxCalls
<1>4. ASSUME NEW d \in Conn
      PROVE  /\ "greeted" \in DOMAIN handler'[d]
             /\ handler'[d].pc \in Inside => handler'[d].greeted
             /\ \A n \in 1 .. MaxCalls(d) : effects'[d][n] > 0 => handler'[d].greeted
  <2>1. CASE d = c
    BY <1>1, <1>2, <2>1, Zenon DEF Greeted, Earned
  <2>2. CASE d # c
    BY <1>1, <1>2, <2>2, Zenon DEF Greeted, Earned
  <2> QED
    BY <2>1, <2>2
<1> QED
  BY <1>1, <1>3, <1>4, Zenon DEF Greeted, Earned

LEMMA GoesKeeps ==
  ASSUME NEW c \in Conn, NEW h, Goes(c, h), "greeted" \in DOMAIN h,
         handler[c].greeted => h.greeted, h.pc \in Inside => h.greeted, Earned(c, h)
  PROVE  Keeps(c)
  BY Zenon DEF Goes, Keeps, clientVars

LEMMA RespondsKeeps ==
  ASSUME NEW c \in Conn, NEW h, NEW replies, NEW after, Responds(c, h, replies, after),
         "pc" \in DOMAIN h, "greeted" \in DOMAIN h, handler[c].greeted => h.greeted,
         Earned(c, h)
  PROVE  Keeps(c)
<1> DEFINE g == [h EXCEPT !.pc = "reply", !.out = replies, !.after = after]
<1>1. g.pc = "reply" /\ g.greeted = h.greeted /\ "greeted" \in DOMAIN g
  OBVIOUS
<1>2. Goes(c, g)
  BY Zenon DEF Responds
<1> HIDE DEF g
<1>3. Earned(c, g)
  BY <1>1, Zenon DEF Earned
<1>4. g.pc \notin Inside
  BY <1>1 DEF Inside
<1>5. handler[c].greeted => g.greeted
  BY <1>1, Zenon
<1> QED
  BY <1>1, <1>2, <1>3, <1>4, <1>5, GoesKeeps, Zenon

(* A broker call that succeeded for a session that exists. *)
LEMMA EffectiveEarned ==
  ASSUME Greeted, NEW c \in Conn, NEW h, NEW n, Effective(c, h, n), h.greeted
  PROVE  Earned(c, h)
<1>1. DOMAIN effects' = Conn /\ \A d \in Conn \ {c} : effects'[d] = effects[d]
  BY DEF Effective, Greeted
<1> QED
  BY <1>1, Zenon DEF Earned

(* The handler with a request in hand is in the same session. *)
LEMMA HoldingGreeted ==
  ASSUME IInv, Greeted, NEW c \in Conn
  PROVE  /\ "pc" \in DOMAIN Holding(c) /\ "greeted" \in DOMAIN Holding(c)
         /\ Holding(c).greeted = handler[c].greeted
<1>1. "pc" \in DOMAIN handler[c] /\ "greeted" \in DOMAIN handler[c]
  BY DEF IInv, Shape, Greeted
<1> QED
  BY <1>1 DEF Holding

(* A step that makes no successful broker call. *)
LEMMA IdleEarned ==
  ASSUME Greeted, NEW c, NEW h, effects' = effects
  PROVE  Earned(c, h)
  BY DEF Greeted, Earned

(* Steps that replace the pc of a handler, or nothing of it. *)
LEMMA KeepsPc ==
  ASSUME Greeted, NEW c \in Conn, NEW v, v \notin Inside, effects' = effects,
         "pc" \in DOMAIN handler[c], Goes(c, [handler[c] EXCEPT !.pc = v])
  PROVE  Keeps(c)
<1> DEFINE g == [handler[c] EXCEPT !.pc = v]
<1>1. "greeted" \in DOMAIN handler[c]
  BY DEF Greeted
<1>2. "greeted" \in DOMAIN g /\ g.greeted = handler[c].greeted /\ g.pc \notin Inside
  BY <1>1
<1>3. Goes(c, g)
  OBVIOUS
<1> HIDE DEF g
<1>4. Earned(c, g)
  BY IdleEarned, Zenon
<1> QED
  BY <1>2, <1>3, <1>4, GoesKeeps, Zenon

LEMMA PcGreeted ==
  ASSUME IInv, Greeted, NEW c \in Conn, NEW v, v \notin Inside,
         effects' = effects, setup' = setup, handler' = [handler EXCEPT ![c].pc = v]
  PROVE  Greeted'
<1> DEFINE g == [handler[c] EXCEPT !.pc = v]
<1>1. "greeted" \in DOMAIN handler[c] /\ "pc" \in DOMAIN handler[c]
  BY DEF Greeted, IInv, Shape
<1>2. "greeted" \in DOMAIN g /\ g.greeted = handler[c].greeted /\ g.pc \notin Inside
  BY <1>1
<1>3. handler' = [handler EXCEPT ![c] = g]
  OBVIOUS
<1> HIDE DEF g
<1>4. Earned(c, g)
  BY IdleEarned, Zenon
<1>5. Keeps(c)
  BY <1>2, <1>3, <1>4, Zenon DEF Keeps
<1> QED
  BY <1>5, KeepsGreeted

(* Every step of Serve may only create a session, and only a session earns   *)
(* the success of a broker call.                                             *)
LEMMA ServeKeeps ==
  ASSUME IInv, Greeted, NEW c \in Conn, Serve(c)
  PROVE  Keeps(c)
<1> DEFINE H == handler[c]
<1>f. "pc" \in DOMAIN H /\ "greeted" \in DOMAIN H
  BY DEF IInv, Shape, Greeted
<1>h. /\ "pc" \in DOMAIN Holding(c) /\ "greeted" \in DOMAIN Holding(c)
      /\ Holding(c).greeted = H.greeted
  BY HoldingGreeted
<1>e. ASSUME NEW h, effects' = effects PROVE Earned(c, h)
  BY <1>e, IdleEarned, Zenon
<1>i. H.pc \in Inside => H.greeted
  BY Zenon DEF Greeted
<1>r. ASSUME NEW replies, NEW after, Responds(c, Holding(c), replies, after), effects' = effects
      PROVE  Keeps(c)
  BY <1>r, <1>h, <1>e, RespondsKeeps, Zenon
<1>s. ASSUME NEW replies, NEW after, Responds(c, H, replies, after), effects' = effects
      PROVE  Keeps(c)
  BY <1>s, <1>f, <1>e, RespondsKeeps, Zenon
<1>1. CASE Receive(c)
  <2>u. effects' = effects
    BY <1>1, Zenon DEF Receive, brokerVars
  <2>2. CASE \E n \in Chunks(toServer[c]) :
               LET h == [handler[c] EXCEPT !.decoder = feed(@, SubSeq(toServer[c], 1, n))]
               IN  IF h.decoder.failed THEN Responds(c, h, <<Error(0)>>, "finish")
                   ELSE Goes(c, [h EXCEPT !.pc = "next"])
    <3> PICK n \in Chunks(toServer[c]) :
               LET h == [handler[c] EXCEPT !.decoder = feed(@, SubSeq(toServer[c], 1, n))]
               IN  IF h.decoder.failed THEN Responds(c, h, <<Error(0)>>, "finish")
                   ELSE Goes(c, [h EXCEPT !.pc = "next"])
      BY <2>2, Zenon
    <3> DEFINE h == [handler[c] EXCEPT !.decoder = feed(@, SubSeq(toServer[c], 1, n))]
               g == [h EXCEPT !.pc = "next"]
    <3>1. "pc" \in DOMAIN h /\ "greeted" \in DOMAIN h /\ h.greeted = H.greeted
      BY <1>f
    <3>2. Responds(c, h, <<Error(0)>>, "finish") \/ Goes(c, g)
      BY Zenon
    <3> HIDE DEF h
    <3>3. "greeted" \in DOMAIN g /\ g.greeted = h.greeted /\ g.pc \notin Inside
      BY <3>1 DEF Inside
    <3> HIDE DEF g
    <3>4. CASE Responds(c, h, <<Error(0)>>, "finish")
      BY <3>1, <3>4, <2>u, <1>e, RespondsKeeps, Zenon
    <3>5. CASE Goes(c, g)
      BY <3>1, <3>3, <3>5, <2>u, <1>e, GoesKeeps, Zenon
    <3> QED
      BY <3>2, <3>4, <3>5
  <2>3. CASE Goes(c, [handler[c] EXCEPT !.pc = "finish"])
    BY <1>f, <2>3, <2>u, KeepsPc DEF Inside
  <2> QED
    BY <1>1, <2>2, <2>3, Zenon DEF Receive
<1>2. CASE NoFrame(c)
  <2>u. effects' = effects
    BY <1>2 DEF NoFrame, brokerVars
  <2>2. CASE Responds(c, [handler[c] EXCEPT !.decoder.failed = TRUE], <<Error(0)>>, "finish")
    <3> DEFINE h == [handler[c] EXCEPT !.decoder.failed = TRUE]
    <3>1. "pc" \in DOMAIN h /\ "greeted" \in DOMAIN h /\ h.greeted = H.greeted
      BY <1>f
    <3> HIDE DEF h
    <3>2. Responds(c, h, <<Error(0)>>, "finish")
      BY <2>2 DEF h
    <3> QED
      BY <3>1, <3>2, <2>u, <1>e, RespondsKeeps, Zenon
  <2>3. CASE Goes(c, [handler[c] EXCEPT !.pc = "poll"])
    BY <1>f, <2>3, <2>u, KeepsPc DEF Inside
  <2> QED
    BY <1>2, <2>2, <2>3, Zenon DEF NoFrame
<1>3. CASE Ungreeted(c)
  BY <1>3, <1>r DEF Ungreeted, brokerVars
<1>4. CASE RefuseHello(c)
  BY <1>4, <1>r DEF RefuseHello, brokerVars
<1>5. CASE HelloFenced(c)
  <2>u. effects' = effects
    BY <1>5 DEF HelloFenced, brokerVars
  <2>2. CASE Responds(c, Holding(c), Refusals(Holding(c).frame), "poll")
    BY <2>2, <2>u, <1>r, Zenon
  <2>3. CASE Goes(c, [Holding(c) EXCEPT !.pc = "status"])
    <3> DEFINE h == [Holding(c) EXCEPT !.pc = "status"]
    <3>1. "greeted" \in DOMAIN h /\ h.greeted = H.greeted /\ h.pc \notin Inside
      BY <1>h DEF Inside
    <3> HIDE DEF h
    <3>2. Goes(c, h)
      BY <2>3 DEF h
    <3> QED
      BY <3>1, <3>2, <2>u, <1>e, GoesKeeps, Zenon
  <2> QED
    BY <1>5, <2>2, <2>3, Zenon DEF HelloFenced
<1>6. CASE HelloStatus(c)
  <2> DEFINE h == [handler[c] EXCEPT !.greeted = TRUE]
  <2>1. "pc" \in DOMAIN h /\ "greeted" \in DOMAIN h /\ h.greeted
    BY <1>f
  <2>2. effects' = effects
    BY <1>6 DEF HelloStatus, brokerVars
  <2>3. Responds(c, h, <<[Success(handler[c].frame.corr) EXCEPT !.read = version]>>, "next")
    BY <1>6, Zenon DEF HelloStatus
  <2> HIDE DEF h
  <2> QED
    BY <2>1, <2>2, <2>3, <1>e, RespondsKeeps, Zenon
<1>7. CASE Malformed(c)
  <2>1. \E after : Responds(c, Holding(c), Refusals(Holding(c).frame), after)
    BY <1>7, Zenon DEF Malformed
  <2>2. effects' = effects
    BY <1>7 DEF Malformed, brokerVars
  <2> QED
    BY <2>1, <2>2, <1>r, Zenon
<1>8. CASE Change(c)
  <2>1. PICK replies, n : Responds(c, Holding(c), replies, "next") /\ Effective(c, Holding(c), n)
    BY <1>8, Zenon DEF Change
  <2>2. Holding(c).greeted
    BY <1>8, <1>h, Zenon DEF Change
  <2>3. Earned(c, Holding(c))
    BY <2>1, <2>2, EffectiveEarned, Zenon
  <2> QED
    BY <2>1, <2>2, <2>3, <1>h, RespondsKeeps, Zenon
<1>9. CASE Query(c)
  <2>1. \E replies : Responds(c, Holding(c), replies, "next")
    BY <1>9, Zenon DEF Query
  <2>2. effects' = effects
    BY <1>9 DEF Query, brokerVars
  <2> QED
    BY <2>1, <2>2, <1>r, Zenon
<1>10. CASE Submit(c)
  <2> DEFINE h == [Holding(c) EXCEPT !.pc = "submit", !.seen = Batch]
  <2>1. Goes(c, h) /\ H.greeted
    BY <1>10, Zenon DEF Submit
  <2>2. "greeted" \in DOMAIN h /\ h.greeted = H.greeted
    BY <1>h
  <2>3. effects' = effects
    BY <1>10 DEF Submit, brokerVars
  <2> HIDE DEF h
  <2> QED
    BY <2>1, <2>2, <2>3, <1>e, GoesKeeps, Zenon
<1>11. CASE SubmitEntry(c)
  <2>1. PICK accepted \in {0, 1} :
          LET h == [handler[c] EXCEPT !.seen = @ - 1, !.did = @ + accepted]
          IN  /\ Effective(c, h, accepted)
              /\ \/ Goes(c, h)
                 \/ Responds(c, h, <<[Success(h.frame.corr) EXCEPT !.did = h.did]>>, "next")
    BY <1>11, Zenon DEF SubmitEntry
  <2> DEFINE h == [handler[c] EXCEPT !.seen = @ - 1, !.did = @ + accepted]
  <2>2. "pc" \in DOMAIN h /\ "greeted" \in DOMAIN h /\ h.greeted = H.greeted
    BY <1>f
  <2>3. H.greeted
    BY <1>11, <1>i DEF SubmitEntry, Inside
  <2>4. /\ Effective(c, h, accepted)
        /\ Goes(c, h) \/ \E replies : Responds(c, h, replies, "next")
    BY <2>1, Zenon
  <2> HIDE DEF h
  <2>5. h.greeted /\ Earned(c, h)
    BY <2>2, <2>3, <2>4, EffectiveEarned, Zenon
  <2>6. CASE Goes(c, h)
    BY <2>2, <2>5, <2>6, GoesKeeps, Zenon
  <2>7. CASE \E replies : Responds(c, h, replies, "next")
    BY <2>2, <2>5, <2>7, RespondsKeeps, Zenon
  <2> QED
    BY <2>4, <2>6, <2>7
<1>12. CASE Arbitrate(c)
  <2> DEFINE h == [Holding(c) EXCEPT !.pc = "grants", !.seen = version + 1, !.did = 1]
  <2>1. H.greeted /\ Holding(c).greeted
    BY <1>12, <1>h, Zenon DEF Arbitrate
  <2>2. "greeted" \in DOMAIN h /\ h.greeted = Holding(c).greeted
    BY <1>h
  <2>3. \/ effects' = effects /\ \E replies : Responds(c, Holding(c), replies, "next")
        \/ Goes(c, h) /\ Effective(c, Holding(c), 1)
    BY <1>12, Zenon DEF Arbitrate
  <2> HIDE DEF h
  <2>4. CASE Goes(c, h) /\ Effective(c, Holding(c), 1)
    <3>1. Earned(c, Holding(c))
      BY <2>1, <2>4, EffectiveEarned, Zenon
    <3>2. Earned(c, h)
      BY <3>1, <2>1, <2>2, Zenon DEF Earned
    <3> QED
      BY <3>2, <2>1, <2>2, <2>4, GoesKeeps, Zenon
  <2>5. CASE effects' = effects /\ \E replies : Responds(c, Holding(c), replies, "next")
    BY <2>5, <1>r, Zenon
  <2> QED
    BY <2>3, <2>4, <2>5
<1>13. CASE ListGrants(c)
  <2>1. \E replies : Responds(c, handler[c], replies, "next")
    BY <1>13, Zenon DEF ListGrants
  <2>2. effects' = effects
    BY <1>13 DEF ListGrants, brokerVars
  <2> QED
    BY <2>1, <2>2, <1>s, Zenon
<1>14. CASE FenceBefore(c)
  <2> DEFINE h == [Holding(c) EXCEPT !.pc = "fence", !.seen = IF Victim \in fenced THEN 1 ELSE 0]
  <2>1. Goes(c, h) /\ H.greeted
    BY <1>14, Zenon DEF FenceBefore
  <2>2. "greeted" \in DOMAIN h /\ h.greeted = H.greeted
    BY <1>h
  <2>3. effects' = effects
    BY <1>14 DEF FenceBefore, brokerVars
  <2> HIDE DEF h
  <2> QED
    BY <2>1, <2>2, <2>3, <1>e, GoesKeeps, Zenon
<1>15. CASE Fence(c)
  <2>1. PICK replies : /\ Responds(c, handler[c], replies, "next")
                       /\ effects' = effects \/ Effective(c, handler[c], 1)
    BY <1>15, Zenon DEF Fence
  <2>2. H.greeted
    BY <1>15, <1>i DEF Fence, Inside
  <2>3. Earned(c, H)
    BY <2>1, <2>2, <1>e, EffectiveEarned, Zenon
  <2> QED
    BY <2>1, <2>2, <2>3, <1>f, RespondsKeeps, Zenon
<1>16. CASE Shutdown(c)
  BY <1>16, <1>r DEF Shutdown, brokerVars
<1> QED
  BY <1>1, <1>2, <1>3, <1>4, <1>5, <1>6, <1>7, <1>8, <1>9, <1>10, <1>11, <1>12, <1>13,
     <1>14, <1>15, <1>16, Zenon DEF Serve

(* The other steps of a handler. *)
LEMMA PollStopKeeps ==
  ASSUME IInv, Greeted, NEW c \in Conn, PollStop(c)
  PROVE  Keeps(c)
<1>1. Goes(c, [handler[c] EXCEPT !.pc = "finish"]) /\ effects' = effects
  BY DEF PollStop, brokerVars
<1>2. "pc" \in DOMAIN handler[c] /\ "greeted" \in DOMAIN handler[c]
  BY DEF IInv, Shape, Greeted
<1> QED
  BY <1>1, <1>2, KeepsPc DEF Inside

LEMMA SendKeeps ==
  ASSUME IInv, Greeted, NEW c \in Conn, Send(c)
  PROVE  Keeps(c)
<1> DEFINE H == handler[c]
<1>1. /\ "pc" \in DOMAIN H /\ "after" \in DOMAIN H /\ "greeted" \in DOMAIN H
      /\ H.after \in Afters
  BY DEF IInv, Shape, Greeted
<1>2. PICK sent \in BOOLEAN : handler' = [handler EXCEPT ![c] = AfterSend(H, sent)]
  BY Zenon DEF Send
<1>3. setup' = setup /\ effects' = effects
  BY DEF Send, clientVars
<1> DEFINE g == AfterSend(H, sent)
<1>4. "greeted" \in DOMAIN g /\ g.greeted = H.greeted
  BY <1>1 DEF AfterSend
<1>5. g.pc \notin Inside
  BY <1>1 DEF AfterSend, Afters, Inside
<1>6. handler' = [handler EXCEPT ![c] = g]
  BY <1>2
<1> HIDE DEF g
<1>7. Earned(c, g)
  BY <1>3, IdleEarned, Zenon
<1> QED
  BY <1>3, <1>4, <1>5, <1>6, <1>7, Zenon DEF Keeps

LEMMA FinishGreeted ==
  ASSUME IInv, Greeted, NEW c \in Conn, Finish(c)
  PROVE  Greeted'
<1>1. handler' = [handler EXCEPT ![c].pc = "gone"] /\ setup' = setup /\ effects' = effects
  BY DEF Finish, clientVars, brokerVars
<1>2. "gone" \notin Inside
  BY DEF Inside
<1> QED
  BY <1>1, <1>2, PcGreeted, Zenon

(* A handler starts without a session, outside any request. *)
LEMMA AdmitGreeted ==
  ASSUME IInv, Greeted, Admit
  PROVE  Greeted'
<1>1. setup' = setup /\ effects' = effects
  BY DEF Admit, clientVars, brokerVars
<1>2. CASE handler' = handler
  BY <1>1, <1>2 DEF Greeted, MaxCalls
<1>3. CASE handler' = [handler EXCEPT ![acceptor.accepted].pc = "poll"]
  <2>1. acceptor.accepted \in Conn
    BY DEF Admit, IInv, Places, Unserved
  <2>2. "poll" \notin Inside
    BY DEF Inside
  <2> QED
    BY <1>1, <1>3, <2>1, <2>2, PcGreeted, Zenon
<1> QED
  BY <1>2, <1>3 DEF Admit

LEMMA InitGreeted == Init => Greeted
<1> SUFFICES ASSUME Init PROVE Greeted
  OBVIOUS
<1>1. DOMAIN effects = Conn /\ \A c \in Conn : handler[c] = NoHandler
  BY DEF Init
<1>2. ASSUME NEW c \in Conn, NEW n \in 1 .. MaxCalls(c)
      PROVE  ~(effects[c][n] > 0)
  BY DEF Init
<1>3. "greeted" \in DOMAIN NoHandler /\ NoHandler.pc \notin Inside
  BY DEF NoHandler, Inside
<1> QED
  BY <1>1, <1>2, <1>3, Zenon DEF Greeted

LEMMA NextGreeted ==
  ASSUME IInv, Greeted, [Next]_vars
  PROVE  Greeted'
<1>1. ASSUME UNCHANGED <<setup, handler, effects>>
      PROVE  Greeted'
  BY <1>1 DEF Greeted, MaxCalls
<1>2. ASSUME NEW c \in Conn, Handle(c)
      PROVE  Greeted'
  BY <1>2, PollStopKeeps, ServeKeeps, SendKeeps, KeepsGreeted, FinishGreeted, Zenon DEF Handle
<1>3. ASSUME NEW c \in Conn, Connect(c) \/ Call(c) \/ Exchange(c) \/ Close(c)
      PROVE  Greeted'
  <2>1. UNCHANGED <<setup, handler, effects>>
    BY <1>3, Zenon
       DEF Connect, Call, Exchange, TakeReply, ClientReceive, Close, brokerVars
  <2> QED
    BY <1>1, <2>1, Zenon
<1>4. ASSUME AcceptorExit \/ AcceptOne \/ StopFlag \/ Stop
      PROVE  Greeted'
  <2>1. UNCHANGED <<setup, handler, effects>>
    BY <1>4, Zenon DEF AcceptorExit, AcceptOne, StopFlag, Stop, StopListener, StopJoin,
       StopDrained, clientVars, brokerVars
  <2> QED
    BY <1>1, <2>1, Zenon
<1>5. CASE UNCHANGED vars
  <2>1. UNCHANGED <<setup, handler, effects>>
    BY <1>5, Zenon DEF vars, clientVars, brokerVars
  <2> QED
    BY <1>1, <2>1, Zenon
<1> QED
  BY <1>2, <1>3, <1>4, <1>5, AdmitGreeted, Zenon DEF Next, Accept

(* No broker call succeeds on a connection whose handshake was not accepted, *)
(* whatever is left in its buffer and however its handler interleaves with   *)
(* the others (server.cpp, serve_connection).                                *)
THEOREM SessionBeforeChange == Spec => []OnlyGreetedChange
<1>1. Greeted => OnlyGreetedChange
  BY Zenon DEF Greeted, OnlyGreetedChange
<1>2. IInv /\ Greeted /\ [Next]_vars => Greeted'
  BY NextGreeted
<1> QED
  BY <1>1, <1>2, InitGreeted, SessionInvariant, PTL DEF Spec
=============================================================================
