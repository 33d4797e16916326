-------------------------- MODULE StationRefinement --------------------------
(***************************************************************************)
(* Station implements Device: model.py keeps, with its clock, lease, cache *)
(* and mechanics, the promises the gateway is built on.                    *)
(***************************************************************************)
EXTENDS Station

Kind(action) == CASE action \in Motions -> "MOVE"
                  [] action \in {"ARM", "STOP"} -> action
                  [] OTHER -> "SET"

Promised(c) == [kind |-> Kind(c.action), seq |-> c.seq, boot |-> c.boot, session |-> c.session]
Plain(result) == [seq |-> result.seq, result |-> result.result]

Registers == [boot |-> station.boot, owner |-> station.owner, highwater |-> station.highwater,
              active |-> station.active.seq, ack |-> Plain(station.ack),
              finished |-> Plain(station.finished)]

Abstract == INSTANCE Device WITH dev <- Registers,
                                 Commands <- {Promised(c) : c \in Commands}

\* Every step of the station is a step of Device: no command of a session that
\* does not own it has an effect, no number has an effect twice within an
\* ownership, and only a motion that was accepted ends (model.py:52-60, 117-200).
ImplementsDevice == Abstract!DeviceSpec
=============================================================================
