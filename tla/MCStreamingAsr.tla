--------------------------- MODULE MCStreamingAsr ---------------------------
(* Instances of StreamingAsr for TLC. *)
EXTENDS StreamingAsr

\* Nothing goes wrong; one packet, one text.
Plain == [can |-> {"poll"}, breaks |-> {}, kinds |-> {"final"}, packets |-> {1}, texts |-> 1]

\* The session: its client and its process do all they can.
Life == {"poll", "ping", "wait", "complete", "cancel", "crash", "stop"}
SessionWorlds ==
  {[Plain EXCEPT !.can = Life, !.texts = 2, !.packets = {}],
   [Plain EXCEPT !.can = Life \cup {"faults"}],
   [Plain EXCEPT !.can = {"poll", "wait", "ping", "age", "crash"}],
   [Plain EXCEPT !.can = {"poll", "wait", "ping", "age", "meeting"}]}

\* The connection: sockets break, are refused, fall silent.
SocketWorlds ==
  {[Plain EXCEPT !.can = {"poll", "unreachable"}, !.breaks = Sockets],
   [Plain EXCEPT !.can = {"poll", "silent", "normal"}, !.breaks = Sockets, !.kinds = {}],
   [Plain EXCEPT !.can = {"poll", "cancel", "complete"}, !.breaks = Sockets],
   [Plain EXCEPT !.can = {"poll", "reorder"}, !.breaks = {0}, !.kinds = {"final", "refusal", "bad"}, !.texts = 2]}

\* Audio: packets one after the other, or all at once.
AudioWorlds ==
  {[Plain EXCEPT !.can = {"poll", "serial"}, !.breaks = {0}, !.kinds = {}, !.packets = Packets],
   [Plain EXCEPT !.can = {"poll"}, !.breaks = {0, 1}, !.kinds = {}, !.packets = Packets],
   [Plain EXCEPT !.can = {"poll", "serial"}, !.breaks = {0, 1}, !.packets = Packets]}

AllWorlds == SessionWorlds \cup SocketWorlds \cup AudioWorlds
=============================================================================
