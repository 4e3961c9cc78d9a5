----------------------------- MODULE MCTerminal -----------------------------
(***************************************************************************)
(* Terminal for TLC: what the process writes, and the fairness of the      *)
(* goroutines of the server.                                               *)
(***************************************************************************)
EXTENDS Terminal

MCTexts == { <<"a", "ESC", "[", "6", "n", "b">>,
             <<"ESC", "[", "1", ";", "1", "R", "ESC">>,
             <<"a", "b", "c">> }

\* The goroutines of the server run on; processes and clients do as they like.
LiveSpec == /\ Spec
            /\ WF_vars(Stream) /\ WF_vars(Wait)
            /\ \A c \in Clients : WF_vars(Handler(c)) /\ WF_vars(Writer(c))

\* When the process has ended, so do the stream and the subscriptions of the clients that
\* came before wait noticed; and a client that leaves makes room for another one.
SessionEnds ==
    /\ proc = "exited" ~> stream = "gone" /\ status = "closed"
    /\ \A c \in Clients :
          /\ c \in subs /\ proc = "exited" /\ status = "running" ~> c \notin subs
          /\ conn[c] = "gone" ~> handler[c] = "idle"
=============================================================================
