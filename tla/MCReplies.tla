----------------------------- MODULE MCReplies -----------------------------
(* Small pipelines of one connection.                                      *)
EXTENDS Replies

Plain(where) == [kind |-> "plain", parts |-> <<where>>, blocking |-> FALSE]
Many(kind, parts) == [kind |-> kind, parts |-> parts, blocking |-> FALSE]

(* A blocking command, an EXEC of one remote command, a SUBSCRIBE to one   *)
(* channel, and a request that does not parse.                             *)
OrderCmds == <<[Plain("remote") EXCEPT !.blocking = TRUE],
               Many("exec", <<"local", "remote">>),
               Many("subscribe", <<"local">>), Many("malformed", <<"local">>)>>

(* A SUBSCRIBE to two channels, and two requests after it.                 *)
SubscribeCmds == <<Many("subscribe", <<"local", "local">>), Plain("local"), Plain("local")>>

QuitCmds == <<Plain("remote"), Many("quit", <<"local">>)>>
=============================================================================
