---------------------------- MODULE MCWebSocket ----------------------------
(***************************************************************************)
(* Instances of WebSocket for TLC: what is configured, and how much of     *)
(* what may happen happens in it.                                          *)
(***************************************************************************)
EXTENDS WebSocket

Plain == [server |-> FALSE, proxy |-> FALSE, tls |-> FALSE, timeout |-> FALSE,
          call |-> "none", sends |-> 0, arrivals |-> 0]
With(s, call, sends, arrivals) == [s EXCEPT !.call = call, !.sends = sends, !.arrivals = arrivals]
Timeout == [Plain EXCEPT !.timeout = TRUE]
Server(s) == [s EXCEPT !.server = TRUE]
Tls(s) == [s EXCEPT !.tls = TRUE]
Proxy(s) == [s EXCEPT !.proxy = TRUE]

MCSetups ==
    {With(Plain, "none", 0, 2), With(Plain, "none", 2, 1), With(Plain, "close", 2, 0),
     With(Timeout, "close", 0, 0),
     With(Tls(Plain), "none", 0, 1), With(Tls(Timeout), "none", 0, 0),
     With(Proxy(Tls(Plain)), "close", 0, 0), With(Proxy(Timeout), "none", 0, 0),
     With(Server(Plain), "forceClose", 1, 0), With(Server(Plain), "none", 0, 1),
     With(Server(Timeout), "none", 0, 0)}
=============================================================================
