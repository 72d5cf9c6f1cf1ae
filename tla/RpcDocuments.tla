---------------------------- MODULE RpcDocuments ----------------------------
(* What the clients of RpcServer send, and what happens meanwhile.         *)

\* A call: a method, "multicall", "other" (no method's name) or "invalid" (no
\* method or no parameter array), with the token "none", "right" or "wrong".
Call(name, token, calls) == [name |-> name, token |-> token, calls |-> calls]

\* How a request comes: "json", a POST or GET of /jsonrpc; "xml", a POST of /rpc;
\* "plain", anything else over HTTP (another path or verb, OPTIONS); or
\* "upgrade" to WebSocket.  Once a client is upgraded its requests are messages.
\* Its form is a "call", a "batch" or "garbage".
Request(way, form, calls) ==
  [way |-> way, form |-> form, calls |-> calls, large |-> FALSE, keep |-> TRUE]

\* script: what each client sends; secret: rpc-secret is set; tasks: a download
\* is active; ed2k: the ED2K network runs; events, signals, drops: the
\* notifications, the interrupts and the clients that go away, at most.
Scenario(script, secret, tasks, ed2k, events, signals, drops) ==
  [script |-> script, secret |-> secret, tasks |-> tasks, ed2k |-> ed2k,
   events |-> events, signals |-> signals, drops |-> drops]
=============================================================================
