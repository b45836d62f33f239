----------------------------- MODULE MCSession -----------------------------
(* Small instances of Session: a requester and an operator. *)
EXTENDS Session, TLC

CONSTANTS c1, c2, b1, b2

Good(types) == [type: types, form: {"good"}]
As(type, form) == {[type |-> type, form |-> form]}

Boots == (c1 :> b1) @@ (c2 :> b2)

Hello == Good({"Hello"})

(* Two sessions whose calls interleave, one of them fencing the other. *)
Interleaved ==
  [max_connections |-> 2, mortal |-> {}, noisy |-> FALSE, stops |-> FALSE,
   script |-> (c1 :> <<Hello, Good({"Arbitrate", "Fence", "Submit", "Query"})>>)
           @@ (c2 :> <<Hello, Good({"Fence", "Change"})>>)]

(* One session whose requests may be refused in every way. *)
Refused ==
  [max_connections |-> 1, mortal |-> {c1}, noisy |-> FALSE, stops |-> FALSE,
   script |-> (c1 :> <<Hello \cup As("Hello", "rejected") \cup As("Hello", "mid")
                         \cup Good({"Change"}),
                       [type: {"Change"}, form: {"mid", "short", "good"}] \cup Hello,
                       [type: {"Change"}, form: {"mid", "good"}],
                       Good({"Change", "Arbitrate", "Query"}), Good({"Query"})>>)
           @@ (c2 :> <<>>)]

(* One session over a stream that damages frames. *)
Damaged ==
  [max_connections |-> 1, mortal |-> {}, noisy |-> TRUE, stops |-> FALSE,
   script |-> (c1 :> <<Hello, Good({"Change"}), Good({"Query"})>>) @@ (c2 :> <<>>)]

(* More clients than the server admits, and a server that is stopped. *)
Stopped ==
  [max_connections |-> 1, mortal |-> {c1, c2}, noisy |-> FALSE, stops |-> TRUE,
   script |-> (c1 :> <<Hello, Good({"Shutdown", "Change"})>>) @@ (c2 :> <<Hello \cup As("Shutdown", "mid"), Good({"Shutdown"})>>)]

(* A session that ends the server, and one that comes too late. *)
Ended ==
  [max_connections |-> 1, mortal |-> {}, noisy |-> FALSE, stops |-> FALSE,
   script |-> (c1 :> <<Hello, Good({"Shutdown", "Arbitrate"})>>) @@ (c2 :> <<Hello>>)]

(* A session that is refused twice. *)
RefusedTwice ==
  [max_connections |-> 1, mortal |-> {}, noisy |-> FALSE, stops |-> TRUE,
   script |-> (c1 :> <<Hello, As("Change", "mid"), As("Change", "mid")>>) @@ (c2 :> <<>>)]

Ending == {Ended}
Refusing == {RefusedTwice}
Situations == {Interleaved, Refused, Damaged, Stopped}
=============================================================================
