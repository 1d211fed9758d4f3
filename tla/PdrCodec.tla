------------------------------ MODULE PdrCodec ------------------------------
(***************************************************************************)
(* How a packet becomes bytes and bytes become a packet: the portable data *)
(* representation (src/src/pdr.c, pdr_mem.c, pdr_sizeof.c) and the packet  *)
(* layouts built on it by the C++ library (Packet.C) and by the C library  *)
(* of back-ends (lightweight/Packet.c).                                    *)
(*                                                                         *)
(* A byte is a digit below Base, a machine word a number below Base^width, *)
(* with scaled-down widths that keep the order of the real ones.  Encoders *)
(* write in the host's byte order; only decoders swap.  A decoder maps the *)
(* bytes left to [ok, val, rest].                                          *)
(***************************************************************************)
EXTENDS Naturals, Sequences, SequencesExt, FiniteSets

CONSTANTS Base,        \* bound: values of a byte
          Int32Max,    \* bound: stands for INT32_MAX as an array length
          UInt32Max,   \* bound: stands for UINT32_MAX as an array length
          Null         \* the pointer NULL

\* The elements of a sequence of sequences in a row, and the sum of a sequence.
Join(ss) == LET upto[i \in 0..Len(ss)] == IF i = 0 THEN <<>> ELSE upto[i - 1] \o ss[i] IN upto[Len(ss)]
Total(ns) == LET upto[i \in 0..Len(ns)] == IF i = 0 THEN 0 ELSE upto[i - 1] + ns[i] IN upto[Len(ns)]

Orders == {"little", "big"}
Elems == {"c", "uc", "hd", "uhd", "d", "ud", "ld", "uld", "f", "lf", "s"}

\* Fmt2Type: a token is an optional a or A (the array kinds) and an element; any other
\* token is of no known type.
Unknown == [arr |-> "none", el |-> "none"]
Fmt2Type(tok) == IF tok.arr \in {"", "a", "A"} /\ tok.el \in Elems THEN tok ELSE Unknown
DataType_Fmt2Type(tok) == IF tok.arr \in {"", "a", "A"} /\ tok.el \in Elems THEN tok ELSE Unknown

SIZEOF(el) ==
  CASE el \in {"c", "uc"} -> 1 [] el \in {"hd", "uhd"} -> 2
    [] el \in {"d", "ud", "f"} -> 3 [] OTHER -> 4

-----------------------------------------------------------------------------
\* pdr_mem.c: memory streams
Digits(bo, w, v) ==
  LET little == [i \in 1..w |-> (v \div (Base ^ (i - 1))) % Base]
  IN  IF bo = "little" THEN little ELSE Reverse(little)
Number(bo, s) ==
  LET little == IF bo = "little" THEN s ELSE Reverse(s)
  IN  Total([i \in 1..Len(s) |-> little[i] * (Base ^ (i - 1))])

NoValue == [ok |-> FALSE, val |-> <<>>, rest |-> <<>>]
Got(v, in, n) == [ok |-> TRUE, val |-> v, rest |-> SubSeq(in, n + 1, Len(in))]

\* one more value read behind those in acc
after(acc, one(_)) ==
  IF ~acc.ok THEN acc
  ELSE LET g == one(acc.rest) IN IF g.ok THEN [g EXCEPT !.val = Append(acc.val, g.val)] ELSE NoValue

pdrmem_putint(bo, w, v) == Digits(bo, w, v)

\* pdrmem_create hands out the swapping operations when the orders differ.
pdrmem_getint(host, remote, w, in) ==
  IF w > Len(in) THEN NoValue
  ELSE LET raw == SubSeq(in, 1, w)
       IN  Got(Number(host, IF remote # host THEN Reverse(raw) ELSE raw), in, w)

\* floats and doubles move bit for bit, like the integers of their width
pdrmem_putfloat(bo, w, v) == Digits(bo, w, v)
\* Mutant: never swapped.
pdrmem_getfloat_plain(host, remote, w, in) ==
  IF w > Len(in) THEN NoValue ELSE Got(Number(host, SubSeq(in, 1, w)), in, w)

pdrmem_getfloat(host, remote, w, in) == pdrmem_getint(host, remote, w, in)

pdrmem_getbytes(in, n) == IF n > Len(in) THEN NoValue ELSE Got(SubSeq(in, 1, n), in, n)

-----------------------------------------------------------------------------
\* pdr.c: the primitives
pdr_put(bo, el, v) ==
  IF el \in {"f", "lf"} THEN pdrmem_putfloat(bo, SIZEOF(el), v) ELSE pdrmem_putint(bo, SIZEOF(el), v)
pdr_get(host, remote, el, in) ==
  IF el \in {"f", "lf"} THEN pdrmem_getfloat(host, remote, SIZEOF(el), in)
  ELSE pdrmem_getint(host, remote, SIZEOF(el), in)

Length32(bo, n) == pdrmem_putint(bo, 3, n)
Length64(bo, n) == pdrmem_putint(bo, 4, n)

\* Strings are counted and carry their terminator; NULL cannot be encoded.
pdr_string_put(bo, s) == Length32(bo, Len(s) + 1) \o s \o <<0>>
pdr_string_get(host, remote, in) ==
  LET n == pdrmem_getint(host, remote, 3, in)
      b == pdrmem_getbytes(n.rest, n.val)
  IN  IF ~n.ok THEN NoValue ELSE IF ~b.ok THEN NoValue
      ELSE [b EXCEPT !.val = SubSeq(@, 1, Len(@) - 1)]

\* Mutant: one element too few.
pdr_array_get_short(host, remote, el, max, in) ==
  LET n == pdrmem_getint(host, remote, 4, in)
      one(a) == IF el = "s" THEN pdr_string_get(host, remote, a) ELSE pdr_get(host, remote, el, a)
      upto[i \in 0..n.val] == IF i = 0 THEN [n EXCEPT !.val = <<>>]
                              ELSE after(upto[i - 1], one)
  IN  IF ~n.ok THEN NoValue ELSE IF n.val > max THEN NoValue
      ELSE upto[IF n.val > 1 THEN n.val - 1 ELSE n.val]

\* Arrays are counted in 64 bits; a count above maxsize fails.
pdr_array_put(bo, el, s) ==
  Length64(bo, Len(s)) \o
  Join([i \in 1..Len(s) |-> IF el = "s" THEN pdr_string_put(bo, s[i]) ELSE pdr_put(bo, el, s[i])])
pdr_array_get(host, remote, el, max, in) ==
  LET n == pdrmem_getint(host, remote, 4, in)
      one(a) == IF el = "s" THEN pdr_string_get(host, remote, a) ELSE pdr_get(host, remote, el, a)
      upto[i \in 0..n.val] == IF i = 0 THEN [n EXCEPT !.val = <<>>]
                              ELSE after(upto[i - 1], one)
  IN  IF ~n.ok THEN NoValue ELSE IF n.val > max THEN NoValue ELSE upto[n.val]

\* Mutant: a count equal to maxsize fails too.
pdr_bytes_get_strict(host, remote, max, in) ==
  LET n == pdrmem_getint(host, remote, 4, in)
  IN  IF ~n.ok THEN NoValue ELSE IF n.val >= max THEN NoValue ELSE pdrmem_getbytes(n.rest, n.val)

\* Bytes are counted in 64 bits and copied as they are.
pdr_bytes_put(bo, s) == Length64(bo, Len(s)) \o s
pdr_bytes_get(host, remote, max, in) ==
  LET n == pdrmem_getint(host, remote, 4, in)
  IN  IF ~n.ok THEN NoValue ELSE IF n.val > max THEN NoValue ELSE pdrmem_getbytes(n.rest, n.val)

\* pdr_vector: a fixed number of 64-bit words
pdr_vector_put(bo, s) == Join([i \in 1..Len(s) |-> Length64(bo, s[i])])
pdr_vector_get(host, remote, n, in) ==
  [i \in 1..n |-> pdrmem_getint(host, remote, 4, SubSeq(in, 4 * (i - 1) + 1, 4 * i)).val]

-----------------------------------------------------------------------------
\* pdr_sizeof: the same walk with counters for the stores.  Elements are [type, val].
sizeof_string_bare(s) == 3 + Len(s)   \* mutant: no terminator
sizeof_string(s) == 3 + Len(s) + 1
pdr_sizeof(e) ==
  CASE e.type.arr = "" /\ e.type.el = "s" -> sizeof_string(e.val)
    [] e.type.arr = "" /\ e.type.el # "s" -> SIZEOF(e.type.el)
    [] e.type.arr # "" /\ e.type.el = "s" ->
         4 + Total([i \in 1..Len(e.val) |-> sizeof_string(e.val[i])])
    [] OTHER -> 4 + Len(e.val) * SIZEOF(e.type.el)
Sizeof(elems) == Total([i \in 1..Len(elems) |-> pdr_sizeof(elems[i])])

\* The elements an encoder accepts: no NULL string, no array above its limit.
Accepted(elems, max(_)) ==
  \A i \in 1..Len(elems) : LET e == elems[i] IN
     IF e.type.arr = "" THEN e.val # Null
     ELSE Len(e.val) <= max(e.type.arr) /\ \A k \in 1..Len(e.val) : e.val[k] # Null

\* The longest array an a or an A can carry.
Unlimited == Base ^ 4
pdr_packet_data_max(arr) == IF arr = "a" THEN Int32Max ELSE Unlimited
Packet_pdr_packet_data_max(arr) == IF arr = "a" THEN UInt32Max ELSE Unlimited

\* Packet.C: arrays of characters go as bytes.
pdr_packet_data_put(bo, e) ==
  CASE e.type.arr = "" /\ e.type.el = "s" -> pdr_string_put(bo, e.val)
    [] e.type.arr = "" /\ e.type.el # "s" -> pdr_put(bo, e.type.el, e.val)
    [] e.type.arr # "" /\ e.type.el \in {"c", "uc"} -> pdr_bytes_put(bo, e.val)
    [] OTHER -> pdr_array_put(bo, e.type.el, e.val)
pdr_packet_data_get(host, remote, type, in) ==
  CASE type.arr = "" /\ type.el = "s" -> pdr_string_get(host, remote, in)
    [] type.arr = "" /\ type.el # "s" -> pdr_get(host, remote, type.el, in)
    [] type.arr # "" /\ type.el \in {"c", "uc"} ->
         pdr_bytes_get(host, remote, pdr_packet_data_max(type.arr), in)
    [] OTHER -> pdr_array_get(host, remote, type.el, pdr_packet_data_max(type.arr), in)

\* lightweight/Packet.c: only arrays of characters of the A kind go as bytes.
Packet_pdr_packet_data_put(bo, e) ==
  CASE e.type.arr = "" /\ e.type.el = "s" -> pdr_string_put(bo, e.val)
    [] e.type.arr = "" /\ e.type.el # "s" -> pdr_put(bo, e.type.el, e.val)
    [] e.type.arr = "A" /\ e.type.el \in {"c", "uc"} -> pdr_bytes_put(bo, e.val)
    [] OTHER -> pdr_array_put(bo, e.type.el, e.val)
Packet_pdr_packet_data_get(host, remote, type, in) ==
  CASE type.arr = "" /\ type.el = "s" -> pdr_string_get(host, remote, in)
    [] type.arr = "" /\ type.el # "s" -> pdr_get(host, remote, type.el, in)
    [] type.arr = "A" /\ type.el \in {"c", "uc"} ->
         pdr_bytes_get(host, remote, Packet_pdr_packet_data_max(type.arr), in)
    [] OTHER -> pdr_array_get(host, remote, type.el, Packet_pdr_packet_data_max(type.arr), in)

\* decode_pdr_data: one element after the other, in the order of the format
DecodeAll(get(_, _), fmt, in) ==
  LET upto[i \in 0..Len(fmt)] == IF i = 0 THEN [ok |-> TRUE, val |-> <<>>, rest |-> in]
                                 ELSE after(upto[i - 1], LAMBDA b : get(fmt[i], b))
  IN  upto[Len(fmt)]

-----------------------------------------------------------------------------
\* The header: stream, tag, source, format, destinations, and last the byte order.  A
\* token of the format takes two characters.
OrderByte(bo) == IF bo = "little" THEN 0 ELSE 1
ByteOrder(b) == IF b = 0 THEN "little" ELSE "big"
Arrs == <<"", "a", "A">>
ElemSeq == <<"c", "uc", "hd", "uhd", "d", "ud", "ld", "uld", "f", "lf", "s">>
IndexOf(s, x) == CHOOSE i \in 1..Len(s) : s[i] = x
FmtString(fmt) ==
  Join([i \in 1..Len(fmt) |-> <<IndexOf(Arrs, fmt[i].arr), IndexOf(ElemSeq, fmt[i].el)>>])
Tokens(str) ==
  [i \in 1..(Len(str) \div 2) |-> [arr |-> Arrs[str[2 * i - 1]], el |-> ElemSeq[str[2 * i]]]]

\* Mutant: the source before the tag.
encode_pdr_header_swapped(bo, p) ==
  pdr_put(bo, "ud", p.stream) \o pdr_put(bo, "ud", p.src) \o pdr_put(bo, "d", p.tag)
  \o pdr_string_put(bo, FmtString(p.fmt)) \o pdr_array_put(bo, "ud", p.dests) \o <<OrderByte(bo)>>

encode_pdr_header(bo, p) ==
  pdr_put(bo, "ud", p.stream) \o pdr_put(bo, "d", p.tag) \o pdr_put(bo, "ud", p.src)
  \o pdr_string_put(bo, FmtString(p.fmt)) \o pdr_array_put(bo, "ud", p.dests) \o <<OrderByte(bo)>>

\* The C library writes an empty list of destinations.
Packet_pdr_packet_header_put(bo, p) == encode_pdr_header(bo, [p EXCEPT !.dests = <<>>])

\* The fields in turn; the byte order is read from the end first.
pdr_packet_header_get(host, hdr, maxdests) ==
  LET remote == ByteOrder(hdr[Len(hdr)])
      stream == pdr_get(host, remote, "ud", hdr)
      tag == pdr_get(host, remote, "d", stream.rest)
      src == pdr_get(host, remote, "ud", tag.rest)
      fmt == pdr_string_get(host, remote, src.rest)
      dests == pdr_array_get(host, remote, "ud", maxdests, fmt.rest)
  IN  [stream |-> stream.val, tag |-> tag.val, src |-> src.val, fmt |-> Tokens(fmt.val),
       dests |-> dests.val, order |-> ByteOrder(dests.rest[1])]
decode_pdr_header(host, hdr) == pdr_packet_header_get(host, hdr, Unlimited)
\* The C library reads the destinations past and keeps none.
Packet_pdr_packet_header(host, hdr) ==
  [pdr_packet_header_get(host, hdr, Int32Max) EXCEPT !.dests = <<>>]
=============================================================================
