--------------------------------- MODULE Xdr ---------------------------------
(***************************************************************************)
(* The external data representation: the Packer and the Unpacker, byte by  *)
(* byte, and the messages of ONC RPC and VXI-11 as the fields they pack    *)
(* and unpack, in order.                                                   *)
(*                                                                         *)
(* One behaviour packs one message, puts it on the wire, and unpacks it    *)
(* the way its receiver does.  The wire is a datagram, which a receive     *)
(* buffer may cut short after a word, or a stream, on which do_call marks  *)
(* a record of one fragment and a server one of several.                   *)
(*                                                                         *)
(* A word is a signed integer, a u32 past 2^31 the negative one of the     *)
(* same bits.                                                              *)
(***************************************************************************)
EXTENDS Integers, Sequences

CONSTANTS
    Names,           \* the messages that are sent
    Words, Opaques,  \* the values of their fields
    Statuses         \* the values of the status fields of a reply header

Byte == 0..255
MaxWord == 2147483647
Word == (-MaxWord - 1)..MaxWord

\* A message with all its opaque fields fits into one fragment, whose length has 31 bits.
MaxOpaque == 67108864

ASSUME ConstantsAssumption ==
    /\ Words \subseteq Word
    /\ \A o \in Opaques : o \in Seq(Byte) /\ Len(o) <= MaxOpaque
    /\ Statuses \subseteq Word

VARIABLES
    name,       \* the message
    sent,       \* history: the values packed, in order
    packer,     \* Packer.buff
    unpacker,   \* Unpacker.buff
    stream,     \* what is left to read of a stream
    cut,        \* history: whether the message was cut short, or inside a word
    got,        \* the values unpacked, in order
    pc          \* packing, unpacking, and how it ended

vars == <<name, sent, packer, unpacker, stream, cut, got, pc>>

Ended == {"ok", "err", "panicked"}

-----------------------------------------------------------------------------
(* Packer *)

\* write_u32 and write_i32, big endian
BE(x) == <<(x \div 16777216) % 256, (x \div 65536) % 256, (x \div 256) % 256, x % 256>>

PackBool(b) == BE(IF b THEN 1 ELSE 0)

Zeros(n) == [i \in 1..n |-> 0]

\* A packer that does not align what it has packed.
PackOpaqueUnpadded(buff, data) == buff \o BE(Len(data)) \o data

\* pack_variable_len_opaque: zeros until the buffer, as a whole, is aligned
PackOpaque(buff, data) ==
    LET b == buff \o BE(Len(data)) \o data
    IN  b \o Zeros((4 - (Len(b) % 4)) % 4)

Pack(buff, kind, v) ==
    CASE kind = "opaque" -> PackOpaque(buff, v)
      [] kind = "bool"   -> buff \o PackBool(v)
      [] OTHER           -> buff \o BE(v)

-----------------------------------------------------------------------------
(* Unpacker: what is returned, and the bytes left *)

Ok(v, rest) == [how |-> "ok", val |-> v, rest |-> rest]
Fails(how, buff) == [how |-> how, rest |-> buff]

\* An unpacker that takes the last byte for the first.
ValueLittleEndian(b) ==
    (((b[4] + 128) % 256) - 128) * 16777216 + b[3] * 65536 + b[2] * 256 + b[1]

\* The first four bytes; the first of them holds the sign.
Value(b) == (((b[1] + 128) % 256) - 128) * 16777216 + b[2] * 65536 + b[3] * 256 + b[4]

UnpackWord(buff) ==
    IF Len(buff) < 4 THEN Fails("err", buff)
    ELSE Ok(Value(buff), SubSeq(buff, 5, Len(buff)))

UnpackBool(buff) ==
    LET w == UnpackWord(buff)
    IN  IF w.how # "ok" THEN w
        ELSE IF w.val \in {0, 1} THEN Ok(w.val = 1, w.rest)
        ELSE Fails("panicked", w.rest)

\* An unpacker that does not skip the padding.
UnpackOpaqueUnpadded(buff) ==
    LET w == UnpackWord(buff)
    IN  IF w.how # "ok" THEN w
        ELSE IF w.val \notin 0..Len(w.rest) THEN Fails("panicked", w.rest)
        ELSE Ok(SubSeq(w.rest, 1, w.val), SubSeq(w.rest, w.val + 1, Len(w.rest)))

\* drain(..n) panics past the end; then bytes are dropped until what remains,
\* as a whole, is aligned.
UnpackOpaque(buff) ==
    LET w == UnpackWord(buff)
    IN  IF w.how # "ok" THEN w
        ELSE IF w.val \notin 0..Len(w.rest) THEN Fails("panicked", w.rest)
        ELSE LET left == Len(w.rest) - w.val
             IN  Ok(SubSeq(w.rest, 1, w.val),
                    SubSeq(w.rest, w.val + (left % 4) + 1, Len(w.rest)))

Unpack(buff, kind) ==
    CASE kind = "opaque" -> UnpackOpaque(buff)
      [] kind = "bool"   -> UnpackBool(buff)
      [] OTHER           -> UnpackWord(buff)

-----------------------------------------------------------------------------
(* Messages: the fields of each, in order, with their kinds *)

W(f) == [field |-> f, kind |-> "word"]
B(f) == [field |-> f, kind |-> "bool"]
O(f) == [field |-> f, kind |-> "opaque"]
S(f) == [field |-> f, kind |-> "status"]

CallHeader == <<W("xid"), W("mtype"), W("rpcvers"), W("prog"), W("vers"), W("proc"),
                W("cred"), O("cred body"), W("verf"), O("verf body")>>
ReplyHeader == <<W("xid"), S("mtype"), S("reply_stat"), W("verf"), O("verf body"),
                 S("accept_stat")>>

Mapping     == <<W("prog"), W("vers"), W("prot"), W("port")>>
CallArgs    == <<W("prog"), W("vers"), W("proc"), O("args")>>
CreateLink  == <<W("id"), B("lock_device"), W("lock_timeout"), O("device")>>
DeviceWrite == <<W("link"), W("timeout"), W("lock_timeout"), W("flags"), O("data")>>
DeviceRead  == <<W("link"), W("request_size"), W("timeout"), W("lock_timeout"),
                 W("flags"), W("term_char")>>
Generic     == <<W("link"), W("flags"), W("lock_timeout"), W("timeout")>>
RemoteFunc  == <<W("host_addr"), W("host_port"), W("prog_num"), W("prog_vers"),
                 W("prog_family")>>
EnableSrq   == <<W("link"), B("enable"), O("handle")>>
Lock        == <<W("link"), W("flags"), W("lock_timeout")>>
DoCmd       == <<W("link"), W("flags"), W("timeout"), W("lock_timeout"), W("cmd"),
                 B("network_order"), W("datasize"), O("data_in")>>
SrqParms    == <<O("handle")>>

CreateLinkResp == <<W("error"), W("link"), W("abort_port"), W("max_recv_size")>>
WriteResp      == <<W("error"), W("size")>>
ReadResp       == <<W("error"), W("reason"), O("data")>>
StbResp        == <<W("error"), W("stb")>>
DoCmdResp      == <<W("error"), O("data_out")>>

\* What the client unpacks of the replies it asks for.
CreateLinkReadsSwapped == <<W("link"), W("error"), W("abort_port"), W("max_recv_size")>>
CreateLinkReads  == <<W("error"), W("link"), W("abort_port"), W("max_recv_size")>>
WriteReads       == <<W("error"), W("size")>>
ReadReads        == <<W("error"), W("reason"), O("data")>>
DestroyLinkReads == <<W("error")>>
GetPortReads     == <<W("port")>>

\* pack_replyheader, before the answer to a call
Reply(body) == [header |-> ReplyHeader, body |-> body]
Args(body)  == [header |-> CallHeader, body |-> body]

\* The link of destroy_link, the error of a destroy_link reply and the port of a
\* port mapper's reply are one word each.
Written == [
    mapping     |-> Args(Mapping),     call_args |-> Args(CallArgs),
    create_link |-> Args(CreateLink),  write     |-> Args(DeviceWrite),
    read        |-> Args(DeviceRead),  generic   |-> Args(Generic),
    remote_func |-> Args(RemoteFunc),  lock      |-> Args(Lock),
    enable_srq  |-> Args(EnableSrq),   docmd     |-> Args(DoCmd),
    destroy     |-> Args(<<W("link")>>), srq      |-> Args(SrqParms),
    create_link_resp |-> Reply(CreateLinkResp), write_resp |-> Reply(WriteResp),
    read_resp   |-> Reply(ReadResp),   stb_resp  |-> Reply(StbResp),
    docmd_resp  |-> Reply(DoCmdResp),  error     |-> Reply(<<W("error")>>),
    port        |-> Reply(<<W("port")>>)]

\* What the repository does not unpack, its peer unpacks as it was packed.
Reads(n) ==
    CASE n = "create_link_resp" -> CreateLinkReads
      [] n = "write_resp"       -> WriteReads
      [] n = "read_resp"        -> ReadReads
      [] n = "error"            -> DestroyLinkReads
      [] n = "port"             -> GetPortReads
      [] OTHER                  -> Written[n].body

ASSUME NamesAssumption == Names \subseteq DOMAIN Written

Out(n) == Written[n].header \o Written[n].body
In(n)  == Written[n].header \o Reads(n)

\* REPLY, MSG_ACCEPTED and SUCCESS; unpack_replyheader fails at any other value.
\* (The words it reads before it does so, of a mismatch, are not looked at.)
Expected == [mtype |-> 1, reply_stat |-> 0, accept_stat |-> 0]

Accepts(f, v) == f.kind = "status" => v = Expected[f.field]

-----------------------------------------------------------------------------
Values(kind) ==
    CASE kind = "opaque" -> Opaques
      [] kind = "bool"   -> BOOLEAN
      [] kind = "status" -> Statuses
      [] OTHER           -> Words

\* The words of a header are of no interest to a run; a call's header carries no
\* authentication.
Chosen(i) ==
    LET kind == Out(name)[i].kind
    IN  IF i > Len(Written[name].header) THEN Values(kind)
        ELSE IF kind = "word" THEN {i}
        ELSE IF kind = "opaque" /\ Written[name].header = CallHeader THEN {<< >>}
        ELSE Values(kind)

Init ==
    /\ name \in Names
    /\ sent = << >>
    /\ packer = << >>
    /\ unpacker = << >>
    /\ stream = << >>
    /\ cut = "no"
    /\ got = << >>
    /\ pc = "packing"

PackField ==
    /\ pc = "packing"
    /\ Len(sent) < Len(Out(name))
    /\ LET i == Len(sent) + 1
       IN  \E v \in Chosen(i) :
              /\ sent' = Append(sent, v)
              /\ packer' = Pack(packer, Out(name)[i].kind, v)
    /\ UNCHANGED <<name, unpacker, stream, cut, got, pc>>

Packed == pc = "packing" /\ Len(sent) = Len(Out(name))

\* get_buf, a datagram, and Unpacker.reset with the first n words of it
Transmit(n) ==
    /\ Packed
    /\ n * 4 <= Len(packer)
    /\ unpacker' = SubSeq(packer, 1, n * 4)
    /\ cut' = IF n * 4 < Len(packer) THEN "short" ELSE "no"
    /\ pc' = "unpacking"
    /\ UNCHANGED <<name, sent, packer, stream, got>>

\* A fragment, after its length with the highest bit set if it is the last.
Fragment(bytes, last) ==
    BE(IF last THEN (Len(bytes) - MaxWord) - 1 ELSE Len(bytes)) \o bytes

\* do_call sends a call as one fragment.
SendRecord ==
    /\ Packed
    /\ stream' = Fragment(packer, TRUE)
    /\ pc' = "reading"
    /\ UNCHANGED <<name, sent, packer, unpacker, cut, got>>

\* A server may cut its reply after any byte.
SendFragments(at) ==
    /\ Packed
    /\ Written[name].header = ReplyHeader
    /\ at < Len(packer)
    /\ stream' = Fragment(SubSeq(packer, 1, at), FALSE)
                 \o Fragment(SubSeq(packer, at + 1, Len(packer)), TRUE)
    /\ cut' = IF at % 4 = 0 THEN "no" ELSE "unaligned"
    /\ pc' = "reading"
    /\ UNCHANGED <<name, sent, packer, unpacker, got>>

\* A fragment is read in units of four bytes.  If the stream does not have them,
\* read_exact waits for as long as the connection lasts, and then fails.
ReadFragment ==
    /\ pc = "reading"
    /\ LET x == Value(stream)
           n == IF x < 0 THEN (x + MaxWord) + 1 ELSE x
           units == (n \div 4) + (IF n % 4 = 0 THEN 0 ELSE 1)
       IN  IF Len(stream) < 4 \/ (Len(stream) - 4) \div 4 < units
           THEN pc' = "err" /\ UNCHANGED <<unpacker, stream>>
           ELSE /\ unpacker' = unpacker \o SubSeq(stream, 5, 4 + units * 4)
                /\ stream' = SubSeq(stream, 5 + units * 4, Len(stream))
                /\ pc' = IF x < 0 THEN "unpacking" ELSE "reading"
    /\ UNCHANGED <<name, sent, packer, cut, got>>

UnpackField ==
    /\ pc = "unpacking"
    /\ Len(got) < Len(In(name))
    /\ LET f == In(name)[Len(got) + 1]
           r == Unpack(unpacker, f.kind)
       IN  /\ unpacker' = r.rest
           /\ IF r.how = "ok" /\ Accepts(f, r.val)
              THEN got' = Append(got, r.val) /\ UNCHANGED pc
              ELSE /\ pc' = IF r.how = "panicked" THEN "panicked" ELSE "err"
                   /\ UNCHANGED got
    /\ UNCHANGED <<name, sent, packer, stream, cut>>

\* get_port alone looks whether anything is left over.
Finish ==
    /\ pc = "unpacking"
    /\ Len(got) = Len(In(name))
    /\ pc' = IF name = "port" /\ unpacker # << >> THEN "err" ELSE "ok"
    /\ UNCHANGED <<name, sent, packer, unpacker, stream, cut, got>>

Next ==
    \/ PackField
    \/ \E n \in 0..(Len(packer) \div 4) : Transmit(n)
    \/ SendRecord
    \/ \E at \in 1..Len(packer) : SendFragments(at)
    \/ ReadFragment
    \/ UnpackField
    \/ Finish

Spec == Init /\ [][Next]_vars

-----------------------------------------------------------------------------
(* Properties *)

\* "if we started off with the correct padding, we'll end up with the correct padding"
\* (xdr.rs:26), for the packer after every field and for the unpacker too: bytes, and
\* a multiple of four of them.
TypeOK ==
    /\ name \in DOMAIN Written
    /\ packer \in Seq(Byte) /\ Len(packer) % 4 = 0
    /\ unpacker \in Seq(Byte) /\ Len(unpacker) % 4 = 0
    /\ stream \in Seq(Byte)
    /\ cut \in {"no", "short", "unaligned"}
    /\ pc \in {"packing", "reading", "unpacking"} \cup Ended

\* Every field that is unpacked has the value that was packed under its name, also
\* when the message was cut short further on: the padding is skipped and the fields
\* are read in the order in which the other end wrote them.  (Of a record cut inside a
\* word do_call reads part of the next fragment's length as data, and part of the data
\* as its length.)
ReadsWhatWasPacked == cut # "unaligned" =>
    \A i \in DOMAIN got : \E j \in DOMAIN sent :
        /\ Out(name)[j].field = In(name)[i].field
        /\ j > Len(Written[name].header) <=> i > Len(Written[name].header)
        /\ got[i] = sent[j]

\* A message that arrives whole, as a datagram or in fragments cut between words, and
\* whose header does not say error, is unpacked to its last byte; nothing is left over
\* in the unpacker or the stream and nothing fails.
WholeMessageUnpacks ==
    (/\ pc \in Ended /\ cut = "no"
     /\ \A j \in DOMAIN sent : Accepts(Out(name)[j], sent[j])) =>
        pc = "ok" /\ unpacker = << >> /\ stream = << >>

\* The unpacker panics only in an opaque field that a cut message ends inside of; in
\* no other way does a message that one end packs make the other end panic.
PanicsOnlyWhenCut ==
    pc = "panicked" => cut # "no" /\ In(name)[Len(got) + 1].kind = "opaque"
=============================================================================
