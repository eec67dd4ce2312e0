--------------------------- MODULE FrameTransform ---------------------------
(***************************************************************************)
(* What happens to one stored frame before replay-out puts it on the wire: *)
(* the mutation pipeline (replay/mutation.py), remapping of MAC addresses, *)
(* IPv4 addresses and ports with the checksum repair (replay/remap.py) and *)
(* the structural validation (replay/validate.py).                         *)
(*                                                                         *)
(* A frame is a record of the fields these functions read or write, and of *)
(* its length in bytes, which decides which of the fields exist:           *)
(*   0..13   Ethernet header: dmac, smac, ether                            *)
(*   14..33  IPv4 header: version, ihl, total, frag, mf, proto, sip, dip   *)
(*   14+ihl  transport header: sport, dport, then the checksum             *)
(* ipck and tck say what a receiver finds when it verifies a checksum:     *)
(* "ok", "bad" or (transport only) "zero", the bytes 00 00.                *)
(***************************************************************************)
EXTENDS Naturals, Sequences, FiniteSets

EthHeader == 14
IpHeader == 34
Zero == "0"        \* an address made of zero bytes

Base(f) == EthHeader + f.ihl
IsTransport(f) == f.proto \in {"tcp", "udp"}
ChecksumEnd(f) == Base(f) + (IF f.proto = "udp" THEN 8 ELSE 18)
IsFragment(f) == f.frag > 0 \/ f.mf

-----------------------------------------------------------------------------
(* Mutation.  A mutation is a record with a kind; the pipeline applies them *)
(* in order, each to the result of the one before.                          *)

(* A cut at a field boundary: what lies beyond reads as zero bytes should   *)
(* the frame be padded again, and the transport checksum no longer fits.    *)
Cut(f, n) ==
    [f EXCEPT !.len = n,
              !.ether = IF n < EthHeader THEN "other" ELSE @,
              !.version = IF n < IpHeader THEN 0 ELSE @,
              !.ihl = IF n < IpHeader THEN 0 ELSE @,
              !.total = IF n < IpHeader THEN 0 ELSE @,
              !.proto = IF n < IpHeader THEN "none" ELSE @,
              !.sip = IF n < IpHeader THEN Zero ELSE @,
              !.dip = IF n < IpHeader THEN Zero ELSE @,
              !.ipck = IF n < Base(f) THEN "bad" ELSE @,
              !.sport = IF n < Base(f) + 4 THEN 0 ELSE @,
              !.dport = IF n < Base(f) + 4 THEN 0 ELSE @,
              !.tck = IF n < ChecksumEnd(f) THEN "zero"
                      ELSE IF n < EthHeader + f.total /\ @ = "ok" THEN "bad" ELSE @,
              !.payload = IF n < EthHeader + f.total THEN "cut" ELSE @]

Truncate(m, f) == IF f.len <= m.length THEN f ELSE Cut(f, m.length)

(* The replacement touches the payload and nothing repairs the checksum.    *)
Replace(m, f) ==
    IF f.payload # m.old THEN f
    ELSE [f EXCEPT !.payload = m.new, !.len = @ + m.grow,
                   !.tck = IF @ = "ok" THEN "bad" ELSE @]

Pad(m, f) == IF f.len >= m.length THEN f ELSE [f EXCEPT !.len = m.length]

Mutate(m, f) == CASE m.type = "truncate" -> Truncate(m, f)
                  [] m.type = "replace"  -> Replace(m, f)
                  [] m.type = "pad"      -> Pad(m, f)

(* The constructors refuse what the pipeline could not apply.               *)
MutationAccepted(m) ==
    /\ m.type \in {"truncate", "replace", "pad"}
    /\ m.type = "truncate" => m.length > 0
    /\ m.type = "replace" => m.old # ""

ApplyPipeline(pipeline, f) ==
    LET after[i \in 0..Len(pipeline)] ==
            IF i = 0 THEN f ELSE Mutate(pipeline[i], after[i - 1])
    IN  after[Len(pipeline)]

-----------------------------------------------------------------------------
(* Remapping.  A configuration holds three functions from old to new.       *)

Renamed(map, x) == IF x \in DOMAIN map THEN map[x] ELSE x

RemapIsEmpty(c) == DOMAIN c.mac = {} /\ DOMAIN c.ip = {} /\ DOMAIN c.port = {}

RemapAccepted(c) == \A p \in DOMAIN c.port : c.port[p] \in 0..65535

(* _port_offsets looks at the protocol and the length, not at the fragment  *)
(* offset: in a later fragment the "ports" are bytes of the payload.        *)
HasPorts(f) == IsTransport(f) /\ f.len >= Base(f) + 4

(* How much of the segment the new checksum covers: the IPv4 total length   *)
(* unless the frame is shorter than it says; recomputed it fits these       *)
(* bytes.  A zero UDP checksum means "disabled" and is kept; a frame cut    *)
(* before the checksum field has nothing to repair.                         *)
FixTransportChecksum(g, f) ==
    IF \/ f.proto = "udp" /\ f.tck = "zero"
       \/ f.len < ChecksumEnd(f)
    THEN g
    ELSE [g EXCEPT !.tck = IF IsFragment(f) THEN "bad" ELSE "ok"]

RemapFrame(f, c) ==
    LET macs == [f EXCEPT !.dmac = Renamed(c.mac, @), !.smac = Renamed(c.mac, @)]
        ipChanged == {f.sip, f.dip} \cap DOMAIN c.ip # {}
        portsChanged == HasPorts(f) /\ {f.sport, f.dport} \cap DOMAIN c.port # {}
        ips == [macs EXCEPT !.sip = Renamed(c.ip, @), !.dip = Renamed(c.ip, @),
                            !.ipck = IF ipChanged THEN "ok" ELSE @]
        moved == IF ~HasPorts(f) THEN ips
                 ELSE [ips EXCEPT !.sport = Renamed(c.port, @), !.dport = Renamed(c.port, @)]
        stale == [moved EXCEPT !.tck = IF /\ ipChanged \/ portsChanged
                                          /\ @ = "ok" /\ IsTransport(f) /\ f.frag = 0
                                       THEN "bad" ELSE @]
    IN  IF RemapIsEmpty(c) \/ f.len < EthHeader THEN f
        ELSE IF \/ f.ether # "ipv4" \/ f.len < IpHeader
                \/ f.ihl < 20 \/ f.len < EthHeader + f.ihl THEN macs
        ELSE IF (ipChanged \/ portsChanged) /\ f.frag = 0 /\ HasPorts(f)
             THEN FixTransportChecksum(stale, f)
        ELSE stale

-----------------------------------------------------------------------------
(* Validation: the set of issues found; the frame is valid when there is    *)
(* none.  A structural issue with the header ends the examination.          *)

HeaderIssues(f) ==
    IF f.len < EthHeader THEN {"short ethernet"}
    ELSE IF f.ether # "ipv4" THEN {}
    ELSE IF f.len < IpHeader THEN {"truncated ipv4"}
    ELSE (IF f.version # 4 THEN {"version"} ELSE {})
         \cup (IF f.ihl < 20 THEN {"ihl"}
               ELSE IF f.len < EthHeader + f.ihl THEN {"truncated options"} ELSE {})

LengthIssues(f) ==
    (IF f.total < f.ihl THEN {"total below header"}
     ELSE IF EthHeader + f.total > f.len THEN {"frame below total"} ELSE {})
    \cup (IF IsTransport(f) /\ f.total < f.ihl + 4 THEN {"truncated transport"} ELSE {})

ValidateFrame(f) ==
    IF f.ether = "ipv4" /\ HeaderIssues(f) \in SUBSET {"version"}
    THEN HeaderIssues(f) \cup LengthIssues(f)
    ELSE HeaderIssues(f)

FrameValid(f) == ValidateFrame(f) = {}
=============================================================================
