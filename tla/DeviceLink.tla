----------------------------- MODULE DeviceLink -----------------------------
(***************************************************************************)
(* Two nodes with a TOSMac device each, as the programs that exchange      *)
(* files see them.  A device keeps one received packet, rx_packet, and the *)
(* flag recv_done; a packet that arrives replaces the one before, read or  *)
(* not.  What the radio may do to a packet is given by Faults; the driver  *)
(* itself is modelled in TOSMac.                                           *)
(***************************************************************************)
EXTENDS Integers, Sequences

CONSTANTS Nodes, Peer(_), Packets, Invalid,
          Faults      \* \subseteq {"lost", "garbled"}

VARIABLES rx_packet,  \* rx_packet[n]: the packet in the device of n
          recv_done,  \* recv_done[n]: it has not been read yet
          lost        \* history: some packet did not get through

LinkTypeOK == /\ rx_packet \in [Nodes -> Packets \cup {Invalid}]
              /\ recv_done \in [Nodes -> BOOLEAN]
              /\ lost \in BOOLEAN

LinkInit == /\ rx_packet = [n \in Nodes |-> Invalid]
            /\ recv_done = [n \in Nodes |-> FALSE]
            /\ lost = FALSE

Arrives(n, p) == /\ rx_packet' = [rx_packet EXCEPT ![n] = p]
                 /\ recv_done' = [recv_done EXCEPT ![n] = TRUE]

(* write() of node n: the packet gets through, or vanishes, or its         *)
(* reception fails, which wakes the reader of the peer all the same        *)
(* (CC2420_recv_failed).                                                   *)
write(n, p) ==
  \/ Arrives(Peer(n), p) /\ UNCHANGED lost
  \/ "lost" \in Faults /\ lost' = TRUE /\ UNCHANGED << rx_packet, recv_done >>
  \/ "garbled" \in Faults /\ lost' = TRUE /\ Arrives(Peer(n), Invalid)

read_at_once(n) ==   \* seeded fault: does not wait
  /\ recv_done' = [recv_done EXCEPT ![n] = FALSE]
  /\ UNCHANGED << rx_packet, lost >>

(* Blocking read() of node n.  It fails on an invalid packet and leaves     *)
(* the buffer alone, but the programs do not look at the result.           *)
read(n) == /\ recv_done[n]
           /\ recv_done' = [recv_done EXCEPT ![n] = FALSE]
           /\ UNCHANGED << rx_packet, lost >>

BufferAfterRead(n, buffer) ==
  IF rx_packet[n] = Invalid THEN buffer ELSE rx_packet[n]
=============================================================================
