-------------------------- MODULE MC_StreamEngine --------------------------
(* The traffic captured in the runs about StreamEngine.                     *)
EXTENDS StreamEngine

(* Segments of a client (1), a server (2) and another host (3); the bytes   *)
(* cross the end of the sequence space.                                     *)
Packet(src, dst, flags, pos, len, ack) ==
  [protocol |-> "TCP", src |-> src, dst |-> dst, flags |-> flags, seq |-> (13 + pos) % SeqSpace,
   data |-> [i \in 1..len |-> pos + i - 1], ack |-> (13 + ack) % SeqSpace, window |-> 1, app |-> Nothing]
Data(pos, len) == Packet(1, 2, {"ACK"}, pos, len, 0)
Answered(pos, len) == Packet(2, 1, {"ACK"}, pos, len, 0)
Acked(n) == [Packet(2, 1, {"ACK"}, 0, 0, n) EXCEPT !.window = 0]
Flag(src, flags) == Packet(src, 3 - src, flags, 0, 0, 0)
Datagram(src, dst) == [Packet(src, dst, {}, 0, 0, 0) EXCEPT !.protocol = "UDP", !.app = "DNS"]
MCTraffics ==
  {{Data(0, 2), Data(2, 2), Data(1, 3), Data(4, 2), Data(3, 3), Data(6, 1)},
   {Data(0, 3), Data(2, 1), Data(3, 1), Data(1, 1), Data(6, 1)},
   {Flag(1, {"SYN"}), Flag(2, {"SYN", "ACK"}), Flag(1, {"ACK"}), Flag(1, {"FIN", "ACK"}),
    Flag(2, {"FIN", "ACK"}), Flag(2, {"RST"})},
   {Data(0, 1), Data(1, 2), Acked(1), Acked(3), Answered(0, 1)},
   {Flag(2, {"SYN"}), Flag(1, {"SYN", "ACK"}), Datagram(1, 2), Datagram(2, 1),
    Packet(3, 2, {"ACK"}, 0, 2, 0)}}
============================================================================
