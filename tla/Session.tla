------------------------------ MODULE Session ------------------------------
(***************************************************************************)
(* Clients, connections and the coordinator server (client.cpp, server.cpp, *)
(* net.cpp).  Every connection has one client, which makes one call at a    *)
(* time, and, once accepted, one handler thread.  The acceptor thread, the  *)
(* handlers and the thread that calls stop() run concurrently.  A connection*)
(* is a stream of cells in each direction, which arrives in arbitrary       *)
(* chunks.  The broker is what its callers see of it: boots that are fenced *)
(* and the number of calls made so far that may have changed something, be  *)
(* it in vain or in spite of an error.  Each of its methods is atomic, and  *)
(* a reply that needs two of them is two steps.                             *)
(***************************************************************************)
EXTENDS Framing, FiniteSets

CONSTANTS
  Conn,        \* connections, each with its client
  Boot,
  BootOf,      \* the boot identity a client was started with
  Victim,      \* the boot that a Fence call names
  Setups,      \* the situations that are looked at
  SendBuffer,  \* cells that fit into the socket of a client that does not read
  receive_buffer,  \* cells that one receive may return
  Batch,       \* entries of a submission
  Long         \* types of requests that may arrive in pieces

Types == {"Hello", "Change", "Query", "Submit", "Arbitrate", "Fence", "Shutdown"}

(* How a request reads: it decodes; it decodes but carries a version, a token *)
(* or an identity that the handshake refuses; decoding fails at the last      *)
(* field; decoding fails and leaves bytes behind.                             *)
Forms == {"good", "rejected", "short", "mid"}

Requests == [type: Types, form: Forms]

(* The server's options; what the first, second... call of each client may  *)
(* be; the clients that may close their socket or die; whether frames may   *)
(* be damaged; whether the owner of the server calls stop().                *)
Setup ==
  [max_connections: Nat \ {0}, script: [Conn -> Seq(SUBSET Requests)],
   mortal: SUBSET Conn, noisy: BOOLEAN, stops: BOOLEAN]

ASSUME SessionAssumption ==
  /\ IsFiniteSet(Conn)
  /\ BootOf \in [Conn -> Boot] /\ Victim \in Boot
  /\ Setups \subseteq Setup
  /\ SendBuffer \in Nat \ {0} /\ receive_buffer \in Nat \ {0}
  /\ Batch \in Nat \ {0}
  /\ Long \subseteq Types

VARIABLES
  setup,      \* a member of Setups, for ever
  client,     \* CoordinatorClient: state, correlation_, the call, decoder
  result,     \* what the last call of a client returned
  toServer, toClient,
  conn,       \* the server's end of a connection
  backlog,    \* connections that wait for accept
  acceptor,   \* the acceptor thread and the socket it has accepted
  handler,    \* serve_connection, one thread per accepted connection
  handled,    \* frames decoded on a connection
  active, stopping,
  stopper,    \* where stop() is
  fenced, version,             \* the broker
  effects,    \* history: broker calls that succeeded for each call of a client
  began,      \* history: version when the call in progress was made
  knew,       \* history: the boots fenced at that time
  unsent      \* history: a reply on this connection could not be sent

clientVars == <<client, result, began, knew, setup>>
serverVars == <<acceptor, active, stopping, stopper, backlog>>
brokerVars == <<fenced, version, effects, unsent>>
streams == <<toServer, toClient>>
vars == <<clientVars, streams, conn, handler, handled, serverVars, brokerVars>>

(* Bound on the calls of a client. *)
MaxCalls(c) == Len(setup.script[c])

-----------------------------------------------------------------------------
(* Frames *)

NoRequest == [type |-> "Hello", form |-> "good"]

RequestFrame(request, correlation) ==
  [type |-> request.type, form |-> request.form, corr |-> correlation,
   size |-> IF request.type \in Long THEN MaxPayload ELSE 0]

(* A reply: whether it reports success, how many broker calls it says      *)
(* succeeded, the version a round committed, the version its data was read   *)
(* at and whether a boot was fenced already.                                 *)
Refusal(correlation) ==
  [type |-> "Ack", corr |-> correlation, ok |-> FALSE, did |-> 0, round |-> 0,
   read |-> 0, already |-> FALSE, size |-> 0]

Success(correlation) == [Refusal(correlation) EXCEPT !.ok = TRUE]
Error(correlation) == [Refusal(correlation) EXCEPT !.type = "Error"]

(* The cells of a frame as they may arrive. *)
Arrivals(frame) ==
  LET cells == encode_frame(frame)
  IN  {cells} \cup (IF setup.noisy THEN {[cells EXCEPT ![Len(cells)].intact = FALSE]} ELSE {})

(* The chunks that one receive may return. *)
Chunks(stream) == {n \in 1 .. Len(stream) : n <= receive_buffer}

-----------------------------------------------------------------------------
(* The client *)

NewClient == [state |-> "new", corr |-> 0, request |-> NoRequest, decoder |-> EmptyDecoder]
NoResult == [outcome |-> "none", reply |-> Refusal(0)]
Lost == [NoResult EXCEPT !.outcome = "lost"]

Open(c) == client[c].state \in {"idle", "waiting"}
Listening == stopper \in {"serving", "flagged"}

(* CoordinatorClient::connect: the kernel completes the connection before  *)
(* the server accepts it.                                                  *)
Connect(c) ==
  /\ client[c].state = "new" /\ setup.script[c] # <<>>
  /\ \/ /\ Listening /\ Len(backlog) < setup.max_connections
        /\ client' = [client EXCEPT ![c].state = "idle"]
        /\ conn' = [conn EXCEPT ![c] = "queued"]
        /\ backlog' = Append(backlog, c)
     \/ /\ ~Listening
        /\ client' = [client EXCEPT ![c].state = "closed"]
        /\ UNCHANGED <<conn, backlog>>
  /\ UNCHANGED <<setup, result, began, knew, streams, handler, handled, brokerVars,
                 acceptor, active, stopping, stopper>>

(* A client method up to its wait: the next correlation id and one frame.   *)
(* Sending to a connection that the server closed fails.                    *)
Call(c) ==
  /\ client[c].state = "idle" /\ client[c].corr < MaxCalls(c)
  /\ \E request \in setup.script[c][client[c].corr + 1] :
     \E cells \in Arrivals(RequestFrame(request, client[c].corr + 1)) :
       LET sent == conn[c] # "closed"
           correlation == client[c].corr + 1
       IN  /\ client' = [client EXCEPT
                ![c].state = IF sent THEN "waiting" ELSE "idle",
                ![c].corr = correlation, ![c].request = request]
           /\ toServer' = IF sent
                THEN [toServer EXCEPT ![c] = @ \o cells]
                ELSE toServer
           /\ result' = [result EXCEPT ![c] =
                IF sent THEN NoResult ELSE Lost]
  /\ began' = [began EXCEPT ![c] = version]
  /\ knew' = [knew EXCEPT ![c] = fenced]
  /\ UNCHANGED <<setup, toClient, conn, handler, handled, serverVars, brokerVars>>

(* exchange returns. *)
Return(c, decoder, answer) ==
  /\ client' = [client EXCEPT ![c].state = "idle", ![c].decoder = decoder]
  /\ result' = [result EXCEPT ![c] = answer]

(* Mutant of Answer: the correlation id of a reply is not compared. *)
AnswerAny(c, reply) ==
  [outcome |-> IF reply.ok THEN "ok" ELSE "refused", reply |-> reply]

(* What exchange makes of a reply. *)
Answer(c, reply) ==
  IF reply.corr # client[c].corr THEN Lost
  ELSE [outcome |-> IF reply.ok THEN "ok" ELSE "refused", reply |-> reply]

(* exchange, with what the decoder holds. *)
TakeReply(c) ==
  /\ client[c].state = "waiting"
  /\ LET d == client[c].decoder
     IN  \/ NextFails(d) /\ Return(c, [d EXCEPT !.failed = TRUE], Lost)
         \/ NextYields(d) /\ Return(c, Advanced(d), Answer(c, Header(d).frame))
  /\ UNCHANGED <<setup, began, knew, streams, conn, handler, handled, serverVars, brokerVars>>

(* exchange, when the decoder has no frame: a chunk of the stream, or its end. *)
ClientReceive(c) ==
  /\ client[c].state = "waiting"
  /\ ~NextFails(client[c].decoder) /\ ~NextYields(client[c].decoder)
  /\ \/ \E n \in Chunks(toClient[c]) :
          LET d == feed(client[c].decoder, SubSeq(toClient[c], 1, n))
          IN  /\ toClient' = [toClient EXCEPT ![c] = SubSeq(@, n + 1, Len(@))]
              /\ IF d.failed THEN Return(c, d, Lost)
                 ELSE client' = [client EXCEPT ![c].decoder = d] /\ UNCHANGED result
     \/ /\ toClient[c] = <<>> /\ conn[c] = "closed"
        /\ Return(c, client[c].decoder, Lost)
        /\ UNCHANGED toClient
  /\ UNCHANGED <<setup, began, knew, toServer, conn, handler, handled, serverVars, brokerVars>>

(* The client closes its socket, or its process is killed. *)
Close(c) ==
  /\ c \in setup.mortal /\ Open(c)
  /\ client' = [client EXCEPT ![c].state = "closed"]
  /\ toClient' = [toClient EXCEPT ![c] = <<>>]
  /\ UNCHANGED <<setup, result, began, knew, toServer, conn, handler, handled, serverVars,
                 brokerVars>>

-----------------------------------------------------------------------------
(* The acceptor thread *)

NoHandler ==
  [pc |-> "none", decoder |-> EmptyDecoder, greeted |-> FALSE, frame |-> RequestFrame(NoRequest, 0),
   out |-> <<>>, after |-> "poll", seen |-> 0, did |-> 0]

(* The head of the acceptor's loop.  A flag that is raised between this test  *)
(* and the accept might as well have been raised after the accept, and so is  *)
(* no step of its own; the same goes for the loop of a handler.               *)
AcceptorExit ==
  /\ acceptor.pc = "accept" /\ stopping
  /\ acceptor' = [acceptor EXCEPT !.pc = "done"]
  /\ UNCHANGED <<clientVars, streams, conn, handler, handled, brokerVars,
                 active, stopping, stopper, backlog>>

(* Listener::accept_one.  Nothing changes when nobody waits for a poll        *)
(* interval, or when stop has closed the listener.                            *)
AcceptOne ==
  /\ acceptor.pc = "accept" /\ ~stopping /\ backlog # <<>>
  /\ acceptor' = [pc |-> "admit", accepted |-> Head(backlog)]
  /\ backlog' = Tail(backlog)
  /\ UNCHANGED <<clientVars, streams, conn, handler, handled, brokerVars,
                 active, stopping, stopper>>

(* The server closes its end.  When it has not read everything, the peer may  *)
(* lose replies that it has not read either.                                  *)
CloseSocket(c) ==
  /\ conn' = [conn EXCEPT ![c] = "closed"]
  /\ toServer' = [toServer EXCEPT ![c] = <<>>]
  /\ \/ UNCHANGED toClient
     \/ toServer[c] # <<>> /\ toClient' = [toClient EXCEPT ![c] = <<>>]

(* Mutant of Admit: one connection too many. *)
AdmitOneMore ==
  /\ acceptor.pc = "admit"
  /\ acceptor' = [acceptor EXCEPT !.pc = "accept"]
  /\ LET c == acceptor.accepted
     IN  IF active > setup.max_connections
         THEN CloseSocket(c) /\ UNCHANGED <<active, handler>>
         ELSE /\ active' = active + 1
              /\ handler' = [handler EXCEPT ![c].pc = "poll"]
              /\ conn' = [conn EXCEPT ![c] = "served"]
              /\ UNCHANGED streams
  /\ UNCHANGED <<clientVars, handled, brokerVars, stopping, stopper, backlog>>

(* The acceptor counts the connection, under the server's mutex, and starts  *)
(* its handler, or drops the socket when the budget is exhausted.  Nobody    *)
(* can tell the count from the start: stop() joins the acceptor first.       *)
Admit ==
  /\ acceptor.pc = "admit"
  /\ acceptor' = [acceptor EXCEPT !.pc = "accept"]
  /\ LET c == acceptor.accepted
     IN  IF active >= setup.max_connections
         THEN CloseSocket(c) /\ UNCHANGED <<active, handler>>
         ELSE /\ active' = active + 1
              /\ handler' = [handler EXCEPT ![c].pc = "poll"]
              /\ conn' = [conn EXCEPT ![c] = "served"]
              /\ UNCHANGED streams
  /\ UNCHANGED <<clientVars, handled, brokerVars, stopping, stopper, backlog>>

-----------------------------------------------------------------------------
(* serve_connection *)

(* A step of one handler that touches no connection and no broker state. *)
Goes(c, h) ==
  /\ handler' = [handler EXCEPT ![c] = h]
  /\ UNCHANGED <<clientVars, serverVars, conn>>

(* The handler sends these replies and goes on at after: at the next frame of *)
(* its buffer ("next"), at the head of the outer loop ("poll", keep_going is  *)
(* false), or at the end of the connection.                                   *)
Responds(c, h, replies, after) ==
  Goes(c, [h EXCEPT !.pc = "reply", !.out = replies, !.after = after])

(* Mutant of PollStop: the flag is seen only once the client has gone. *)
PollBusy(c) ==
  /\ handler[c].pc = "poll" /\ stopping /\ toServer[c] = <<>> /\ ~Open(c)
  /\ Goes(c, [handler[c] EXCEPT !.pc = "finish"])
  /\ UNCHANGED <<streams, handled, brokerVars>>

(* The head of the outer loop. *)
PollStop(c) ==
  /\ handler[c].pc = "poll" /\ stopping
  /\ Goes(c, [handler[c] EXCEPT !.pc = "finish"])
  /\ UNCHANGED <<streams, handled, brokerVars>>

(* wait_readable, receive_some and FrameDecoder::feed.  Nothing changes when  *)
(* nothing arrives for a poll interval.                                       *)
Receive(c) ==
  /\ handler[c].pc = "poll" /\ ~stopping
  /\ \/ \E n \in Chunks(toServer[c]) :
          LET h == [handler[c] EXCEPT !.decoder = feed(@, SubSeq(toServer[c], 1, n))]
          IN  /\ toServer' = [toServer EXCEPT ![c] = SubSeq(@, n + 1, Len(@))]
              /\ IF h.decoder.failed THEN Responds(c, h, <<Error(0)>>, "finish")
                 ELSE Goes(c, [h EXCEPT !.pc = "next"])
     \/ /\ toServer[c] = <<>> /\ ~Open(c)
        /\ Goes(c, [handler[c] EXCEPT !.pc = "finish"])
        /\ UNCHANGED toServer
  /\ UNCHANGED <<toClient, handled, brokerVars>>

(* FrameDecoder::next yields no request. *)
NoFrame(c) ==
  LET d == handler[c].decoder
  IN  /\ handler[c].pc = "next"
      /\ \/ /\ NextFails(d)
            /\ Responds(c, [handler[c] EXCEPT !.decoder.failed = TRUE], <<Error(0)>>, "finish")
         \/ /\ ~NextFails(d) /\ ~NextYields(d)
            /\ Goes(c, [handler[c] EXCEPT !.pc = "poll"])
      /\ UNCHANGED <<streams, handled, brokerVars>>

(* FrameDecoder::next yields a request of one of these types and forms. *)
Decodes(c, types, forms) ==
  LET d == handler[c].decoder
  IN  /\ handler[c].pc = "next" /\ NextYields(d)
      /\ Header(d).frame.type \in types /\ Header(d).frame.form \in forms
      /\ handled' = [handled EXCEPT ![c] = @ + 1]

(* The handler with that request in hand. *)
Holding(c) ==
  [handler[c] EXCEPT !.decoder = Advanced(@), !.frame = Header(handler[c].decoder).frame,
                     !.seen = 0, !.did = 0]

(* What is sent for a request that is refused: when decoding it left bytes   *)
(* behind, expect_end fails as well and sends a second reply.                *)
Refusals(frame) ==
  <<Refusal(frame.corr)>> \o (IF frame.form = "mid" THEN <<Error(frame.corr)>> ELSE <<>>)

(* A broker call made for the request in hand that succeeded. *)
Effective(c, h, n) == effects' = [effects EXCEPT ![c][h.frame.corr] = @ + n]

(* A request before the handshake.  The connection stays open. *)
Ungreeted(c) ==
  /\ ~handler[c].greeted
  /\ Decodes(c, Types \ {"Hello"}, Forms)
  /\ Responds(c, Holding(c), <<Error(Holding(c).frame.corr)>>, "poll")
  /\ UNCHANGED <<streams, brokerVars>>

(* Hello: decoding, the version, the token or the identity is refused. *)
RefuseHello(c) ==
  /\ Decodes(c, {"Hello"}, {"rejected", "short", "mid"})
  /\ Responds(c, Holding(c), Refusals(Holding(c).frame), "poll")
  /\ UNCHANGED <<streams, brokerVars>>

(* Mutant of HelloFenced: the fences are not consulted. *)
HelloUnchecked(c) ==
  /\ Decodes(c, {"Hello"}, {"good"})
  /\ Goes(c, [Holding(c) EXCEPT !.pc = "status"])
  /\ UNCHANGED <<streams, brokerVars>>

(* Hello: is_fenced. *)
HelloFenced(c) ==
  /\ Decodes(c, {"Hello"}, {"good"})
  /\ IF BootOf[c] \in fenced
     THEN Responds(c, Holding(c), Refusals(Holding(c).frame), "poll")
     ELSE Goes(c, [Holding(c) EXCEPT !.pc = "status"])
  /\ UNCHANGED <<streams, brokerVars>>

(* Hello: status, and the session exists. *)
HelloStatus(c) ==
  LET h == handler[c]
  IN  /\ h.pc = "status"
      /\ Responds(c, [h EXCEPT !.greeted = TRUE],
                  <<[Success(h.frame.corr) EXCEPT !.read = version]>>, "next")
      /\ UNCHANGED <<streams, handled, brokerVars>>

(* Any other request that does not decode.  A Shutdown stops the server even *)
(* then.                                                                     *)
Malformed(c) ==
  /\ handler[c].greeted
  /\ Decodes(c, Types \ {"Hello"}, {"short", "mid"})
  /\ LET h == Holding(c)
     IN  Responds(c, h, Refusals(h.frame),
                  CASE h.frame.type = "Shutdown" -> "stop"
                    [] h.frame.type # "Shutdown" /\ h.frame.form = "mid" -> "poll"
                    [] OTHER -> "next")
  /\ UNCHANGED <<streams, brokerVars>>

(* Mutant of Change: before the handshake as well. *)
ChangeAnyone(c) ==
  /\ Decodes(c, {"Change"}, {"good"})
  /\ \E ok \in BOOLEAN :
       LET h == Holding(c)
           did == IF ok THEN 1 ELSE 0
       IN  /\ Responds(c, h, <<[Refusal(h.frame.corr) EXCEPT !.ok = ok, !.did = did]>>, "next")
           /\ version' = version + 1
           /\ Effective(c, h, did)
  /\ UNCHANGED <<streams, fenced, unsent>>

(* PublishCapacity, SetPolicy, Release and Revoke: one call of the broker,   *)
(* which succeeds or is refused.                                             *)
Change(c) ==
  /\ handler[c].greeted
  /\ Decodes(c, {"Change"}, {"good"})
  /\ \E ok \in BOOLEAN :
       LET h == Holding(c)
           did == IF ok THEN 1 ELSE 0
       IN  /\ Responds(c, h, <<[Refusal(h.frame.corr) EXCEPT !.ok = ok, !.did = did]>>, "next")
           /\ version' = version + 1
           /\ Effective(c, h, did)
  /\ UNCHANGED <<streams, fenced, unsent>>

(* QueryGrant, QueryAccounting and Explain. *)
Query(c) ==
  /\ handler[c].greeted
  /\ Decodes(c, {"Query"}, {"good"})
  /\ LET h == Holding(c)
     IN  \E ok \in BOOLEAN :
           Responds(c, h, <<[Refusal(h.frame.corr) EXCEPT !.ok = ok, !.read = version]>>, "next")
  /\ UNCHANGED <<streams, brokerVars>>

(* SubmitRequests: one call of submit for each entry of the batch. *)
Submit(c) ==
  /\ handler[c].greeted
  /\ Decodes(c, {"Submit"}, {"good"})
  /\ Goes(c, [Holding(c) EXCEPT !.pc = "submit", !.seen = Batch])
  /\ UNCHANGED <<streams, brokerVars>>

SubmitEntry(c) ==
  /\ handler[c].pc = "submit"
  /\ \E accepted \in {0, 1} :
       LET h == [handler[c] EXCEPT !.seen = @ - 1, !.did = @ + accepted]
       IN  /\ version' = version + 1
           /\ Effective(c, h, accepted)
           /\ IF h.seen > 0 THEN Goes(c, h)
              ELSE Responds(c, h, <<[Success(h.frame.corr) EXCEPT !.did = h.did]>>, "next")
  /\ UNCHANGED <<streams, handled, fenced, unsent>>

(* Arbitrate: the round, then, in a second call, the live grants. *)
Arbitrate(c) ==
  /\ handler[c].greeted
  /\ Decodes(c, {"Arbitrate"}, {"good"})
  /\ LET h == Holding(c)
     IN  \/ /\ Responds(c, h, <<Refusal(h.frame.corr)>>, "next")
            /\ UNCHANGED effects
         \/ /\ Goes(c, [h EXCEPT !.pc = "grants", !.seen = version + 1, !.did = 1])
            /\ Effective(c, h, 1)
  /\ version' = version + 1
  /\ UNCHANGED <<streams, fenced, unsent>>

(* The reply lists every live grant of the target: it may be too long for a *)
(* frame.                                                                   *)
ListGrants(c) ==
  LET h == handler[c]
  IN  /\ h.pc = "grants"
      /\ \E size \in {MaxPayload, MaxPayload + 1} :
           Responds(c, h, <<[Success(h.frame.corr) EXCEPT
             !.did = h.did, !.round = h.seen, !.read = version, !.size = size]>>, "next")
      /\ UNCHANGED <<streams, handled, brokerVars>>

(* FencePublisher: is_fenced, then, in a second call, fence_publisher. *)
FenceBefore(c) ==
  /\ handler[c].greeted
  /\ Decodes(c, {"Fence"}, {"good"})
  /\ Goes(c, [Holding(c) EXCEPT !.pc = "fence", !.seen = IF Victim \in fenced THEN 1 ELSE 0])
  /\ UNCHANGED <<streams, brokerVars>>

(* fence_publisher may fail, before or after it recorded the fence. *)
Fence(c) ==
  LET h == handler[c]
      reply == [Refusal(h.frame.corr) EXCEPT !.already = (h.seen = 1)]
  IN  /\ h.pc = "fence"
      /\ \/ /\ Responds(c, h, <<[reply EXCEPT !.ok = TRUE, !.did = 1]>>, "next")
            /\ fenced' = fenced \cup {Victim}
            /\ Effective(c, h, 1)
         \/ /\ Responds(c, h, <<reply>>, "next")
            /\ fenced' \in {fenced, fenced \cup {Victim}}
            /\ UNCHANGED effects
      /\ version' = version + 1
      /\ UNCHANGED <<streams, handled, unsent>>

(* Shutdown: the acknowledgement, and then the flag. *)
Shutdown(c) ==
  /\ handler[c].greeted
  /\ Decodes(c, {"Shutdown"}, {"good"})
  /\ LET h == Holding(c)
     IN  Responds(c, h, <<Success(h.frame.corr)>>, "stop")
  /\ UNCHANGED <<streams, brokerVars>>

(* Mutant of AfterSend: a handler that has stopped the server goes nowhere. *)
AfterSendEnds(h, sent) ==
  LET after == IF h.after = "next" /\ ~sent THEN "poll" ELSE h.after
      rest == Tail(h.out)
  IN  [h EXCEPT !.out = rest, !.after = after,
                !.pc = IF rest # <<>> THEN "reply" ELSE after]

(* The handler after a send: more replies, or what follows the last one.    *)
(* A failed send makes keep_going false.                                    *)
AfterSend(h, sent) ==
  LET after == IF h.after = "next" /\ ~sent THEN "poll" ELSE h.after
      rest == Tail(h.out)
  IN  [h EXCEPT !.out = rest, !.after = after,
                !.pc = IF rest # <<>> THEN "reply" ELSE IF after = "stop" THEN "poll" ELSE after]

(* send_message: a reply that does not fit into a frame is not sent; a send *)
(* to a client that has gone fails, or is not noticed to fail; a send       *)
(* waits while the socket is full.                                          *)
Send(c) ==
  LET h == handler[c]
  IN  /\ h.pc = "reply"
      /\ \/ /\ ~Fits(Head(h.out))
            /\ handler' = [handler EXCEPT ![c] = AfterSend(h, FALSE)]
            /\ unsent' = [unsent EXCEPT ![c] = TRUE]
            /\ UNCHANGED toClient
         \/ /\ Fits(Head(h.out)) /\ Open(c)
            /\ Len(toClient[c]) + 1 + Head(h.out).size <= SendBuffer
            /\ \E cells \in Arrivals(Head(h.out)) :
                 toClient' = [toClient EXCEPT ![c] = @ \o cells]
            /\ handler' = [handler EXCEPT ![c] = AfterSend(h, TRUE)]
            /\ UNCHANGED unsent
         \/ /\ Fits(Head(h.out)) /\ ~Open(c)
            /\ \E sent \in BOOLEAN : handler' = [handler EXCEPT ![c] = AfterSend(h, sent)]
            /\ UNCHANGED <<toClient, unsent>>
      /\ stopping' = (stopping \/ (Len(h.out) = 1 /\ h.after = "stop"))
      /\ UNCHANGED <<clientVars, toServer, conn, handled, acceptor, active, stopper, backlog,
                     fenced, version, effects>>

(* finish: the socket is closed and the connection no longer counted. *)
Finish(c) ==
  /\ handler[c].pc = "finish"
  /\ handler' = [handler EXCEPT ![c].pc = "gone"]
  /\ CloseSocket(c)
  /\ active' = IF active > 0 THEN active - 1 ELSE active
  /\ UNCHANGED <<clientVars, handled, brokerVars, acceptor, stopping, stopper, backlog>>

-----------------------------------------------------------------------------
(* CoordinatorServer::stop, called by the thread that owns the server *)

StopFlag ==
  /\ setup.stops /\ stopper = "serving"
  /\ stopper' = "flagged" /\ stopping' = TRUE
  /\ UNCHANGED <<clientVars, streams, conn, handler, handled, brokerVars, acceptor, active,
                 backlog>>

(* Closing the listener resets the connections nobody has accepted. *)
StopListener ==
  /\ stopper = "flagged"
  /\ stopper' = "closed" /\ backlog' = <<>>
  /\ LET Queued(c) == \E i \in 1 .. Len(backlog) : backlog[i] = c
     IN  /\ conn' = [c \in Conn |-> IF Queued(c) THEN "closed" ELSE conn[c]]
         /\ toServer' = [c \in Conn |-> IF Queued(c) THEN <<>> ELSE toServer[c]]
  /\ UNCHANGED <<clientVars, toClient, handler, handled, brokerVars, acceptor, active, stopping>>

(* Mutant of StopJoin: the acceptor is not joined. *)
StopWithoutJoin ==
  /\ stopper = "closed"
  /\ stopper' = "joined"
  /\ UNCHANGED <<clientVars, streams, conn, handler, handled, brokerVars, acceptor, active,
                 stopping, backlog>>

StopJoin ==
  /\ stopper = "closed" /\ acceptor.pc = "done"
  /\ stopper' = "joined"
  /\ UNCHANGED <<clientVars, streams, conn, handler, handled, brokerVars, acceptor, active,
                 stopping, backlog>>

(* The wait on the condition variable. *)
StopDrained ==
  /\ stopper = "joined" /\ active = 0
  /\ stopper' = "returned"
  /\ UNCHANGED <<clientVars, streams, conn, handler, handled, brokerVars, acceptor, active,
                 stopping, backlog>>

-----------------------------------------------------------------------------
Init ==
  /\ setup \in Setups
  /\ client = [c \in Conn |-> NewClient]
  /\ result = [c \in Conn |-> NoResult]
  /\ toServer = [c \in Conn |-> <<>>] /\ toClient = [c \in Conn |-> <<>>]
  /\ conn = [c \in Conn |-> "none"]
  /\ backlog = <<>>
  /\ acceptor = [pc |-> "accept", accepted |-> CHOOSE c \in Conn : TRUE]
  /\ handler = [c \in Conn |-> NoHandler]
  /\ handled = [c \in Conn |-> 0]
  /\ active = 0 /\ stopping = FALSE /\ stopper = "serving"
  /\ fenced = {} /\ version = 0
  /\ effects = [c \in Conn |-> [n \in 1 .. MaxCalls(c) |-> 0]]
  /\ began = [c \in Conn |-> 0] /\ knew = [c \in Conn |-> {}]
  /\ unsent = [c \in Conn |-> FALSE]

Exchange(c) == TakeReply(c) \/ ClientReceive(c)

Serve(c) ==
  \/ Receive(c) \/ NoFrame(c) \/ Ungreeted(c) \/ RefuseHello(c)
  \/ HelloFenced(c) \/ HelloStatus(c) \/ Malformed(c) \/ Change(c) \/ Query(c)
  \/ Submit(c) \/ SubmitEntry(c) \/ Arbitrate(c) \/ ListGrants(c)
  \/ FenceBefore(c) \/ Fence(c) \/ Shutdown(c)

Handle(c) == PollStop(c) \/ Serve(c) \/ Send(c) \/ Finish(c)

Accept == AcceptorExit \/ AcceptOne \/ Admit

Stop == StopListener \/ StopJoin \/ StopDrained

Next ==
  \/ \E c \in Conn : Connect(c) \/ Call(c) \/ Exchange(c) \/ Close(c) \/ Handle(c)
  \/ Accept \/ StopFlag \/ Stop

(* Threads that can go on do: the acceptor, every handler and a stop() that  *)
(* has begun; and a client that waits for a reply reads what arrives.        *)
(* Nobody has to connect, call, close or stop.                               *)
Fairness ==
  /\ \A c \in Conn : WF_vars(Handle(c)) /\ WF_vars(Exchange(c))
  /\ WF_vars(Accept) /\ WF_vars(Stop)

Spec == Init /\ [][Next]_vars
FairSpec == Spec /\ Fairness

-----------------------------------------------------------------------------
(* Properties *)

Running(c) == handler[c].pc \notin {"none", "gone"}

(* Types of the state. *)
TypeOK ==
  /\ setup \in Setups
  /\ \A c \in Conn :
       /\ client[c].state \in {"new", "idle", "waiting", "closed"}
       /\ client[c].corr \in 0 .. MaxCalls(c)
       /\ result[c].outcome \in {"none", "ok", "refused", "lost"}
       /\ conn[c] \in {"none", "queued", "served", "closed"}
       /\ handler[c].pc \in {"none", "poll", "next", "status", "submit", "grants",
                             "fence", "reply", "finish", "gone"}
       /\ handler[c].after \in {"next", "poll", "finish", "stop"}
       /\ handled[c] \in 0 .. MaxCalls(c)
  /\ acceptor.pc \in {"accept", "admit", "done"} /\ acceptor.accepted \in Conn
  /\ active \in Nat /\ stopping \in BOOLEAN
  /\ stopper \in {"serving", "flagged", "closed", "joined", "returned"}
  /\ fenced \subseteq Boot /\ version \in Nat

(* The counter that admits connections and ends stop() is the number of     *)
(* handler threads that run, and it respects max_connections.               *)
ActiveCounts ==
  /\ active = Cardinality({c \in Conn : Running(c)})
  /\ active <= setup.max_connections

(* Once stop() has returned no thread of the server runs, so that nothing   *)
(* calls the broker any more (server.hpp, stop; bb_coordinator.cpp flushes  *)
(* and destroys the broker next).                                           *)
StopIsQuiet ==
  stopper = "returned" => acceptor.pc = "done" /\ \A c \in Conn : ~Running(c)

(* Whatever the chunks, the requests a handler takes from its decoder are   *)
(* the calls of its client, in order, each once (FrameDecoder).             *)
FramesInOrder ==
  \A c \in Conn : handled[c] > 0 => handler[c].frame.corr = handled[c]

(* An answer that a client accepts belongs to its call: it reports the      *)
(* broker calls that succeeded for that call, and a refusal reports none    *)
(* (exchange), although a request may have two replies.                     *)
AnswerBelongsToCall ==
  \A c \in Conn :
    result[c].outcome \in {"ok", "refused"} /\ client[c].state = "idle" =>
      result[c].reply.did = effects[c][client[c].corr]

(* Only a connection that completed its handshake changes the broker, in    *)
(* spite of refused handshakes and frames left in its buffer.               *)
OnlyGreetedChange ==
  \A c \in Conn : \A n \in 1 .. MaxCalls(c) : effects[c][n] > 0 => handler[c].greeted

(* An answer is never older than its call: a handshake that succeeds, a     *)
(* query, the report of a fence and both halves of the report of a round    *)
(* reflect everything that was done before the call was made, and the       *)
(* grants reported after a round are not older than the round (the second   *)
(* broker call of Arbitrate and FencePublisher).                            *)
AnswersAreFresh ==
  \A c \in Conn :
    LET reply == result[c].reply
        type == client[c].request.type
    IN  result[c].outcome = "ok" =>
          /\ type = "Hello" => BootOf[c] \notin knew[c]
          /\ type \in {"Hello", "Query"} => reply.read >= began[c]
          /\ type = "Arbitrate" => reply.round > began[c] /\ reply.read >= reply.round
          /\ type = "Fence" => Victim \in fenced /\ (Victim \in knew[c] => reply.already)

(* A call that waits returns, unless its reply could not be put into a      *)
(* frame, or its connection waits for an acceptor that a Shutdown request   *)
(* has ended while the listener stays open.                                 *)
Stranded(c) == conn[c] = "queued" /\ acceptor.pc = "done"
CallsReturn ==
  \A c \in Conn :
    client[c].state = "waiting" ~> client[c].state # "waiting" \/ unsent[c] \/ Stranded(c)

(* stop() returns. *)
StopReturns == stopper = "flagged" ~> stopper = "returned"

-----------------------------------------------------------------------------
(* What the comments say and the code does not do. *)

(* "Failures are reported to the caller, which then closes the connection"   *)
(* (server.cpp:28).  A failed send only ends the inner loop.                 *)
FailureCloses == \A c \in Conn : unsent[c] ~> conn[c] = "closed"

(* "Bounded wait for the handshake response" (client.hpp:30).  The handshake *)
(* waits like any other call, for ever when nobody accepts.                  *)
HandshakeReturns ==
  \A c \in Conn :
    client[c].state = "waiting" /\ client[c].request.type = "Hello"
      ~> client[c].state # "waiting"

(* "Sends one request frame and blocks until the matching response arrives"  *)
(* (client.cpp:18).  The second reply to a refused request makes every later *)
(* call of the session fail.                                                 *)
MatchingResponse ==
  \A c \in Conn : result[c].outcome = "lost" => conn[c] = "closed"

(* "Serve until the input stream closes or a shutdown request stops the      *)
(* server" (bb_coordinator.cpp:109).  A Shutdown request ends the threads,   *)
(* but stop() is only called when the input stream closes.                   *)
ShutdownStops == stopping ~> stopper = "returned"
=============================================================================
