--------------------------- MODULE PacketTransfer ---------------------------
(***************************************************************************)
(* A group of packets on its way through the tree: built from the          *)
(* arguments of the application, put into messages (Message.C,             *)
(* lightweight/Message.c), read back and handed on at every hop, and       *)
(* unpacked.  Hosts differ in library and in byte order; only leaves run   *)
(* the C library.                                                          *)
(*                                                                         *)
(* Arguments are slots, as a va_list or a vector of pointers has them: one *)
(* for a scalar or a string, two (pointer, length) for an array.           *)
(***************************************************************************)
EXTENDS PdrCodec

CONSTANTS PacketGroups,      \* groups of packets the application may send
          Routes,      \* sequences of hosts [lib, order]
          Prealloc     \* MESSAGE_PREALLOC_LEN

VARIABLES
  group,   \* what the application sent
  route,   \* the hosts in turn
  at,      \* where the packets are
  pkts,    \* the packets there
  wire,    \* the bytes under way to the next host
  got,     \* what the last unpack gave, by packet
  fate,    \* "fine", "aborted" (an assertion), "undefined", "garbled"
  room     \* Message's buffers: what was needed and what was there
packetVars == <<group, route, at, pkts, wire, got, fate, room>>

NoRoom == [need |-> 0, have |-> 0]
Host == route[at]

PacketsInit ==
  /\ group = <<>> /\ route = <<>> /\ at = 0 /\ pkts = <<>> /\ wire = <<>> /\ got = <<>>
  /\ fate = "fine" /\ room = NoRoom

BeginPackets ==
  /\ at = 0
  /\ \E g \in PacketGroups, r \in Routes : group' = g /\ route' = r
  /\ at' = 1
  /\ UNCHANGED <<pkts, wire, got, fate, room>>

-----------------------------------------------------------------------------
\* Arguments to elements and back
ArgList2DataElementArray(fmt, slots) ==
  LET next[i \in 1..(Len(fmt) + 1)] ==      \* the slot the i-th token reads first
        IF i = 1 THEN 1 ELSE next[i - 1] + (IF Fmt2Type(fmt[i - 1]).arr = "" THEN 1 ELSE 2)
  IN  [i \in 1..Len(fmt) |->
         [type |-> Fmt2Type(fmt[i]),
          val |-> IF Fmt2Type(fmt[i]).arr # "" /\ slots[next[i] + 1] = 0 THEN <<>> ELSE slots[next[i]]]]

\* the index moves on once for the token and once more inside an array
ArgVec2DataElementArray(fmt, slots) ==
  LET isArray(i) == Fmt2Type(fmt[i]).arr # ""
      data_ndx(i) == i + Cardinality({j \in 1..(i - 1) : isArray(j)})
  IN  [i \in 1..Len(fmt) |->
         [type |-> Fmt2Type(fmt[i]),
          val |-> IF isArray(i) /\ slots[data_ndx(i) + 1] = 0 THEN <<>> ELSE slots[data_ndx(i)]]]

Packet_ArgList2DataElementArray(fmt, slots) ==
  LET next[i \in 1..(Len(fmt) + 1)] ==      \* the slot the i-th token reads first
        IF i = 1 THEN 1 ELSE next[i - 1] + (IF DataType_Fmt2Type(fmt[i - 1]).arr = "" THEN 1 ELSE 2)
  IN  [i \in 1..Len(fmt) |->
         [type |-> DataType_Fmt2Type(fmt[i]),
          val |-> IF DataType_Fmt2Type(fmt[i]).arr # "" /\ slots[next[i] + 1] = 0 THEN <<>> ELSE slots[next[i]]]]

\* Scalars and strings come back as one slot; an array as a copy, NULL when it is empty,
\* and its length, cut to 32 bits for the a kind.
scalar_slots(e) == <<e.val>>
copied_slots(e) ==
  <<IF Len(e.val) = 0 THEN Null ELSE e.val,
    IF e.type.arr = "a" THEN Len(e.val) % (UInt32Max + 1) ELSE Len(e.val)>>
string_array_slots(e) ==
  <<IF Len(e.val) = 0 THEN Null ELSE [i \in 1..Len(e.val) |-> e.val[i]],
    IF e.type.arr = "a" THEN Len(e.val) % (UInt32Max + 1) ELSE Len(e.val)>>
DataElementArray2ArgList(elems) ==
  Join([i \in 1..Len(elems) |->
          IF elems[i].type.arr = "" THEN scalar_slots(elems[i])
          ELSE IF elems[i].type.el = "s" THEN string_array_slots(elems[i])
          ELSE copied_slots(elems[i])])

Packet_large_slots(e) == <<IF Len(e.val) = 0 THEN Null ELSE e.val, Len(e.val)>>
Packet_array_slots(e) ==
  <<IF Len(e.val) = 0 THEN Null ELSE e.val, Len(e.val) % (UInt32Max + 1)>>
Packet_DataElementArray2ArgList(elems) ==
  Join([i \in 1..Len(elems) |->
          IF elems[i].type.arr = "" THEN <<elems[i].val>>
          ELSE IF elems[i].type.arr = "A" THEN Packet_large_slots(elems[i])
          ELSE Packet_array_slots(elems[i])])

-----------------------------------------------------------------------------
\* A packet: its fields, its encoded header (empty until it is needed) and data, its
\* elements, and whether those stand for the data (_decoded).
NewPacket(p, elems, hdr, buf) ==
  [info |-> [stream |-> p.stream, tag |-> p.tag, src |-> p.src, fmt |-> p.fmt,
             dests |-> p.dests, order |-> Host.order],
   hdr |-> hdr, buf |-> buf, elems |-> elems, decoded |-> TRUE]

Building == at = 1 /\ wire = <<>> /\ Len(pkts) < Len(group) /\ got = <<>> /\ fate = "fine"

\* encode_pdr_data: whatever pdr_sizeof refuses trips the assertion on its result.
encode_pdr_data(p, elems) ==
  IF ~Accepted(elems, pdr_packet_data_max)
  THEN /\ fate' = "aborted" /\ UNCHANGED pkts
  ELSE /\ pkts' = Append(pkts, NewPacket(p, elems, <<>>,
                    Join([i \in 1..Len(elems) |-> pdr_packet_data_put(Host.order, elems[i])])))
       /\ UNCHANGED fate

\* The constructors that take a va_list, and those that take a vector
Packet_va ==
  /\ Building /\ Host.lib = "C++"
  /\ LET p == group[Len(pkts) + 1]
     IN  encode_pdr_data(p, ArgList2DataElementArray(p.fmt, p.slots))
  /\ UNCHANGED <<group, route, at, wire, got, room>>

Packet_vec ==
  /\ Building /\ Host.lib = "C++"
  /\ LET p == group[Len(pkts) + 1]
     IN  encode_pdr_data(p, ArgVec2DataElementArray(p.fmt, p.slots))
  /\ UNCHANGED <<group, route, at, wire, got, room>>

\* new_Packet_t, Packet_construct: header and data are encoded at once.
new_Packet_t ==
  /\ Building /\ Host.lib = "C"
  /\ LET p == group[Len(pkts) + 1]
         elems == Packet_ArgList2DataElementArray(p.fmt, p.slots)
     IN  IF ~Accepted(elems, Packet_pdr_packet_data_max)
         THEN /\ fate' = "aborted" /\ UNCHANGED pkts
         ELSE /\ pkts' = Append(pkts, NewPacket(p, elems, Packet_pdr_packet_header_put(Host.order, p),
                    Join([i \in 1..Len(elems) |-> Packet_pdr_packet_data_put(Host.order, elems[i])])))
              /\ UNCHANGED fate
  /\ UNCHANGED <<group, route, at, wire, got, room>>

-----------------------------------------------------------------------------
Complete == at > 0 /\ at < Len(route) /\ Len(pkts) = Len(group) /\ wire = <<>> /\ fate = "fine"

\* count (behind a byte with the order), sizes (and a byte that is never written), buffers
MessageBytes(bo, ps) ==
  LET sizes == Join([i \in 1..Len(ps) |-> <<Len(ps[i].hdr), Len(ps[i].buf)>>])
  IN  <<OrderByte(bo)>> \o Length32(bo, Len(ps)) \o pdr_vector_put(bo, sizes) \o <<0>>
      \o Join([i \in 1..Len(ps) |-> ps[i].hdr \o ps[i].buf])

\* Mutant: judges by the number of packets.
send_room_packets(n) ==
  [need |-> 2 * n + 2, have |-> IF n < Prealloc THEN Prealloc ELSE 2 * n + 2]

\* The preallocated arrays serve when two entries per packet and two more are fewer.
send_room(n) ==
  [need |-> 2 * n + 2, have |-> IF 2 * n + 2 < Prealloc THEN Prealloc ELSE 2 * n + 2]
recv_room(n) == [need |-> 2 * n, have |-> IF 2 * n < Prealloc THEN Prealloc ELSE 2 * n]

\* Message::send: headers are encoded here, if they have not been yet.
Message_send ==
  /\ Complete /\ Host.lib = "C++"
  /\ LET ps == [i \in 1..Len(pkts) |->
                  IF pkts[i].hdr # <<>> THEN pkts[i]
                  ELSE [pkts[i] EXCEPT !.hdr = encode_pdr_header(Host.order, pkts[i].info)]]
     IN  wire' = MessageBytes(Host.order, ps)
  /\ room' = send_room(Len(pkts))
  /\ pkts' = <<>> /\ got' = <<>> /\ at' = at + 1
  /\ UNCHANGED <<group, route, fate>>

\* Message_send of the C library: each packet is a message.
Message_send_lightweight ==
  /\ Complete /\ Host.lib = "C"
  /\ wire' = Join([i \in 1..Len(pkts) |-> MessageBytes(Host.order, <<pkts[i]>>)])
  /\ pkts' = <<>> /\ got' = <<>> /\ at' = at + 1
  /\ UNCHANGED <<group, route, fate, room>>

\* Reading one message off the wire: the count is read in the sender's order, the sizes
\* in the reader's own.
ReadMessage(host) ==
  LET remote == ByteOrder(wire[1])
      n == pdrmem_getint(host, remote, 3, SubSeq(wire, 2, 4)).val
      sizes == pdr_vector_get(host, host, 2 * n, SubSeq(wire, 5, Len(wire)))
      start(i) == 4 + 8 * n + 1 + Total(SubSeq(sizes, 1, i - 1))
      piece(i) == SubSeq(wire, start(i) + 1, start(i) + sizes[i])
      end == start(2 * n) + sizes[2 * n]
  IN  [ok |-> end <= Len(wire), n |-> n,
       bufs |-> IF end <= Len(wire) THEN [i \in 1..n |-> <<piece(2 * i - 1), piece(2 * i)>>] ELSE <<>>,
       rest |-> IF end <= Len(wire) THEN SubSeq(wire, end + 1, Len(wire)) ELSE <<>>]

\* The constructor of packets from buffers: the header now, the data when it is unpacked.
FromBuffers(host, b) ==
  [info |-> decode_pdr_header(host, b[1]), hdr |-> b[1], buf |-> b[2], elems |-> <<>>, decoded |-> FALSE]

\* Message::recv
Message_recv ==
  /\ wire # <<>> /\ Host.lib = "C++" /\ fate = "fine"
  /\ LET m == ReadMessage(Host.order)
     IN  /\ fate' = IF m.ok THEN "fine" ELSE "garbled"
         /\ wire' = m.rest
         /\ pkts' = pkts \o [i \in 1..Len(m.bufs) |-> FromBuffers(Host.order, m.bufs[i])]
         /\ room' = recv_room(m.n)
  /\ UNCHANGED <<group, route, at, got>>

\* new_Packet_t_3 decodes both at once; data it cannot decode leaves a packet without
\* elements.
new_Packet_t_3(host, b) ==
  LET info == Packet_pdr_packet_header(host, b[1])
      data == DecodeAll(LAMBDA t, in : Packet_pdr_packet_data_get(host, info.order, t, in), info.fmt, b[2])
  IN  [info |-> info, hdr |-> b[1], buf |-> b[2], decoded |-> TRUE,
       elems |-> IF data.ok THEN [i \in 1..Len(info.fmt) |-> [type |-> info.fmt[i], val |-> data.val[i]]]
                 ELSE <<>>]

Message_recv_lightweight ==
  /\ wire # <<>> /\ Host.lib = "C" /\ fate = "fine"
  /\ LET m == ReadMessage(Host.order)
     IN  /\ fate' = IF m.ok THEN "fine" ELSE "garbled"
         /\ wire' = m.rest
         /\ pkts' = pkts \o [i \in 1..Len(m.bufs) |-> new_Packet_t_3(Host.order, m.bufs[i])]
  /\ UNCHANGED <<group, route, at, got, room>>

-----------------------------------------------------------------------------
Unpackable == at > 0 /\ Len(pkts) = Len(group) /\ wire = <<>> /\ Len(got) < Len(pkts) /\ fate = "fine"

\* Packet::unpack: decodes once, then copies out; elements that could not be decoded are
\* read past the end.
decode_pdr_data(host, p) ==
  IF p.decoded THEN p
  ELSE LET data == DecodeAll(LAMBDA t, in : pdr_packet_data_get(host, p.info.order, t, in), p.info.fmt, p.buf)
       IN  IF data.ok
           THEN [p EXCEPT !.decoded = TRUE,
                          !.elems = [i \in 1..Len(p.info.fmt) |-> [type |-> p.info.fmt[i], val |-> data.val[i]]]]
           ELSE p
unpack ==
  /\ Unpackable /\ Host.lib = "C++"
  /\ LET i == Len(got) + 1
         p == decode_pdr_data(Host.order, pkts[i])
     IN  /\ pkts' = [pkts EXCEPT ![i] = p]
         /\ IF Len(p.elems) = Len(p.info.fmt)
            THEN got' = Append(got, DataElementArray2ArgList(p.elems)) /\ UNCHANGED fate
            ELSE fate' = "undefined" /\ UNCHANGED got
  /\ UNCHANGED <<group, route, at, wire, room>>

Packet_unpack ==
  /\ Unpackable /\ Host.lib = "C"
  /\ LET p == pkts[Len(got) + 1]
     IN  IF Len(p.elems) = Len(p.info.fmt)
         THEN got' = Append(got, Packet_DataElementArray2ArgList(p.elems)) /\ UNCHANGED fate
         ELSE fate' = "undefined" /\ UNCHANGED got
  /\ UNCHANGED <<group, route, at, pkts, wire, room>>

PacketsNext ==
  \/ BeginPackets \/ Packet_va \/ Packet_vec \/ new_Packet_t
  \/ Message_send \/ Message_send_lightweight \/ Message_recv \/ Message_recv_lightweight
  \/ unpack \/ Packet_unpack

-----------------------------------------------------------------------------
\* The slots the application should see: what was passed, NULL for an empty array.
Expected(p) ==
  Join([i \in 1..Len(p.fmt) |->
          LET at1 == i + Cardinality({j \in 1..(i - 1) : p.fmt[j].arr # ""})
          IN  IF p.fmt[i].arr = "" THEN <<p.slots[at1]>>
              ELSE <<IF p.slots[at1 + 1] = 0 THEN Null ELSE p.slots[at1], p.slots[at1 + 1]>>])

\* Whatever libraries the packet passed through, and however often it was unpacked and
\* sent on, unpacking gives the arguments it was built from (Packet.C, decode_pdr_data,
\* DataElementArray2ArgList; lightweight/Packet.c).
UnpackReturnsArguments == \A i \in 1..Len(got) : got[i] = Expected(group[i])

\* The two buffers of a packet tell a host of either byte order the same: its header and
\* its arguments come out as the sender gave them (pdrmem_create, Packet::decode_pdr_data).
EitherOrderReads ==
  \A i \in 1..Len(pkts), o \in Orders :
     pkts[i].hdr # <<>> =>
        LET p == decode_pdr_data(o, FromBuffers(o, <<pkts[i].hdr, pkts[i].buf>>))
        IN  /\ p.info.tag = group[i].tag /\ p.info.fmt = group[i].fmt
            /\ p.decoded => DataElementArray2ArgList(p.elems) = Expected(group[i])

\* A packet keeps its stream, tag, source and format on the way, and its destinations as
\* long as no back-end of the C library handles it (Packet::pdr_packet_header).
HeaderSurvives ==
  \A i \in 1..Len(pkts) : LET p == pkts[i].info  g == group[i] IN
     /\ p.stream = g.stream /\ p.tag = g.tag /\ p.src = g.src /\ p.fmt = g.fmt
     /\ (\A k \in 1..at : route[k].lib = "C++") => p.dests = g.dests

\* pdr_sizeof and the encoders agree, so that no buffer of a packet is too small or has
\* bytes nobody wrote (Packet::encode_pdr_data, pdr_sizeof.c).
SizesAgree ==
  \A i \in 1..Len(pkts) :
     pkts[i].elems # <<>> => Len(pkts[i].buf) = Sizeof(pkts[i].elems)

\* Message's preallocated arrays are used only when they are long enough, at the boundary
\* too (Message::send, Message::recv).
RoomSuffices == room.need <= room.have

\* Whatever one library accepts, the other can read, as long as its arrays of the a kind
\* stay within INT32_MAX and all hosts have one byte order (lightweight/Packet.c).
NobodyGarbles ==
  (\A i, j \in 1..Len(route) : route[i].order = route[j].order) =>
     /\ fate # "garbled"
     /\ fate = "undefined" =>
          \E i \in 1..Len(group) : ~Accepted(ArgList2DataElementArray(group[i].fmt, group[i].slots),
                                              pdr_packet_data_max)

\* A packet means the same to every host it comes to, of either library, and no buffer on the
\* way is too small for it (Packet, Message, pdr).
PacketsCorrect ==
  /\ UnpackReturnsArguments /\ EitherOrderReads /\ HeaderSurvives
  /\ SizesAgree /\ RoomSuffices /\ NobodyGarbles
=============================================================================
