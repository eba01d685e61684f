----------------------------- MODULE SniParser ------------------------------
(***************************************************************************)
(* parse_sni (packet/c/cap.c): the server name read from the first segment *)
(* of a TLS ClientHello, and tupleDataFromC (packet/bpf.go), which reads   *)
(* the name back from the connections map. A segment is a sequence of      *)
(* bytes. The state is a handshake message and how many of its bytes are   *)
(* in the segment that the filter looks at: TCP may cut it anywhere.       *)
(***************************************************************************)
EXTENDS Integers, Sequences

CONSTANTS
  Hellos,        \* the handshake messages a client may send
  data_offset    \* length of the Ethernet, IP and TCP headers

VARIABLES
  hello,   \* the message
  sent     \* how many of its bytes the segment holds

sniVars == <<hello, sent>>

TLS_CONTENT_TYPE_HANDSHAKE      == 22
TLS_HANDSHAKE_TYPE_CLIENT_HELLO == 1
TLS_EXTENSION_SERVER_NAME       == 0

(***************************************************************************)
(* A deliberately wrong TLS_MAX_EXTENSION_COUNT.                           *)
(***************************************************************************)
OneExtensionFewer == 19

TLS_MAX_EXTENSION_COUNT == 20

TLS_MAX_SERVER_NAME_LEN    == 128
TLS_HANDSHAKE_TYPE_OFF     == 5
TLS_SESSION_ID_LENGTH_OFF  == 43
TLS_SERVER_NAME_LENGTH_OFF == 7
TLS_SERVER_NAME_OFF        == 9

-----------------------------------------------------------------------------
(* bpf_skb_load_bytes (external): all of the bytes asked for, or zeros.    *)
(* Offsets count from the start of the frame.                              *)
Load(skb, off, n) ==
  LET at == off - data_offset IN
  IF at + n <= Len(skb) THEN SubSeq(skb, at + 1, at + n) ELSE [i \in 1 .. n |-> 0]

Load8(skb, off) == Load(skb, off, 1)[1]

(* A load of two bytes, and bpf_ntohs.                                     *)
Load16(skb, off) == LET b == Load(skb, off, 2) IN 256 * b[1] + b[2]

(***************************************************************************)
(* A deliberately wrong IsClientHello that takes any handshake message.    *)
(***************************************************************************)
IsHandshake(skb) == Load8(skb, data_offset) = TLS_CONTENT_TYPE_HANDSHAKE

IsClientHello(skb) ==
  /\ Load8(skb, data_offset) = TLS_CONTENT_TYPE_HANDSHAKE
  /\ Load8(skb, data_offset + TLS_HANDSHAKE_TYPE_OFF) = TLS_HANDSHAKE_TYPE_CLIENT_HELLO

(* The fields before the extensions have lengths of their own.             *)
extensions_off(skb) ==
  LET session_id_len_off    == data_offset + TLS_SESSION_ID_LENGTH_OFF
      cipher_suites_len_off == session_id_len_off + 1 + Load8(skb, session_id_len_off)
      compression_methods_len_off ==
        cipher_suites_len_off + 2 + Load16(skb, cipher_suites_len_off)
  IN  compression_methods_len_off + 1 + Load8(skb, compression_methods_len_off) + 2

(* Type field, length field and content of an extension.                   *)
ExtensionLen(len) == 2 + 2 + len

(***************************************************************************)
(* The cursor after i extensions, 16 bits wide. A load beyond the end of   *)
(* the segment gives zero, which is also the type of the server name.      *)
(***************************************************************************)
Cursors(skb) ==
  LET off == extensions_off(skb)
      cur[i \in 0 .. TLS_MAX_EXTENSION_COUNT] ==
        IF i = 0 THEN 0
        ELSE LET c == cur[i - 1] IN (c + ExtensionLen(Load16(skb, off + c + 2))) % 65536
  IN  cur

(* The place of the first extension of the server name type among those    *)
(* the loop visits, 0 when there is none.                                  *)
server_name_ext_off(skb) ==
  LET cur   == Cursors(skb)
      isSni == {i \in 0 .. TLS_MAX_EXTENSION_COUNT - 1 :
                  Load16(skb, extensions_off(skb) + cur[i]) = TLS_EXTENSION_SERVER_NAME}
  IN  IF isSni = {} THEN 0
      ELSE (extensions_off(skb) + cur[CHOOSE i \in isSni : \A j \in isSni : i <= j]) % 65536

(* A name ends at its length or at the first zero byte.                    *)
UpToZero(bytes) ==
  LET zeros == {i \in DOMAIN bytes : bytes[i] = 0} IN
  IF zeros = {} THEN bytes
  ELSE SubSeq(bytes, 1, (CHOOSE i \in zeros : \A j \in zeros : i <= j) - 1)

(* The bytes written to `out'; none when parse_sni returns 0.              *)
parse_sni(skb) ==
  LET ext             == server_name_ext_off(skb)
      server_name_len == Load16(skb, ext + TLS_SERVER_NAME_LENGTH_OFF)
      server_name_off == (ext + TLS_SERVER_NAME_OFF) % 65536
  IN
  IF ~IsClientHello(skb) \/ ext = 0 \/ server_name_len \notin 1 .. TLS_MAX_SERVER_NAME_LEN
  THEN <<>>
  ELSE UpToZero([i \in 1 .. server_name_len |-> Load8(skb, server_name_off + i - 1)])

(* The array of the map entry after a name was written over its start, and *)
(* what tupleDataFromC makes of it: all of it when no zero byte is left.   *)
Written(array, name) ==
  [i \in 1 .. TLS_MAX_SERVER_NAME_LEN |-> IF i <= Len(name) THEN name[i] ELSE array[i]]

tupleDataFromC(array) == UpToZero(array)

-----------------------------------------------------------------------------
(***************************************************************************)
(* A message on the wire (external: RFC 8446, RFC 6066), from its fields:  *)
(* the lengths of the session id, the cipher suites and the compression    *)
(* methods, and the extensions. A name is in the extension of type 0.      *)
(***************************************************************************)
U16(n) == <<n \div 256, n % 256>>

Opaque(n) == [i \in 1 .. n |-> 7]

Content(e) ==
  IF e.type = 0 THEN U16(Len(e.name) + 3) \o <<0>> \o U16(Len(e.name)) \o e.name ELSE Opaque(e.len)

Extension(e) == U16(e.type) \o U16(Len(Content(e))) \o Content(e)

Concat(seqs) ==
  LET upTo[i \in 0 .. Len(seqs)] == IF i = 0 THEN <<>> ELSE upTo[i - 1] \o seqs[i]
  IN  upTo[Len(seqs)]

Extensions(h) == Concat([i \in 1 .. Len(h.extensions) |-> Extension(h.extensions[i])])

Wire(h) ==
  <<h.content>> \o Opaque(4) \o <<h.type>> \o Opaque(37)
    \o <<h.session>> \o Opaque(h.session) \o U16(h.ciphers) \o Opaque(h.ciphers)
    \o <<h.compression>> \o Opaque(h.compression)
    \o U16(Len(Extensions(h))) \o Extensions(h)

(* The fields have their widths, a name has no zero byte, and there is at  *)
(* most one name.                                                          *)
Uint8    == 0 .. 255
Uint16   == 0 .. 65535
NonZeros == Uint8 \ {0}

ExtensionFields == [type : Uint16, name : Seq(NonZeros), len : Uint16]

Messages ==
  [content : Uint8, type : Uint8, session : Uint8, ciphers : Uint16, compression : Uint8,
   extensions : Seq(ExtensionFields)]

OneName(h) ==
  \A i, j \in DOMAIN h.extensions :
    h.extensions[i].type = 0 /\ h.extensions[j].type = 0 => i = j

(* A record of TLS has 5 bytes and at most 2^14 more.                      *)
ASSUME HellosAssumption == \A h \in Hellos : h \in Messages /\ OneName(h) /\ Len(Wire(h)) <= 5 + 16384

(* ETH_HLEN and at most 15 words of 32 bits for each of the other headers. *)
ASSUME data_offsetAssumption == data_offset \in 0 .. 14 + 60 + 60

Segment == SubSeq(Wire(hello), 1, sent)

SniInit == hello \in Hellos /\ sent = 0

(* The segment may as well hold one more byte of the message.              *)
OneMoreByte ==
  /\ sent < Len(Wire(hello))
  /\ sent' = sent + 1
  /\ UNCHANGED hello

SniSpec == SniInit /\ [][OneMoreByte]_sniVars

-----------------------------------------------------------------------------
(* Properties.                                                             *)

(* Where the name of a ClientHello is, if it has one.                      *)
NameAt(h) ==
  {i \in DOMAIN h.extensions :
     /\ h.extensions[i].type = 0
     /\ h.content = TLS_CONTENT_TYPE_HANDSHAKE /\ h.type = TLS_HANDSHAKE_TYPE_CLIENT_HELLO}

NameOf(h) == IF NameAt(h) = {} THEN <<>> ELSE h.extensions[CHOOSE i \in NameAt(h) : TRUE].name

(***************************************************************************)
(* A ClientHello that arrives in one segment gives its server name, byte   *)
(* by byte and through the connections map to TrackConnections, if it is   *)
(* among the first 20 extensions and no longer than 128 bytes: whatever    *)
(* the lengths of the fields before it, and up to a name that leaves no    *)
(* room for a terminating zero.                                            *)
(***************************************************************************)
NameExact ==
  /\ sent = Len(Wire(hello)) /\ NameAt(hello) \cap 1 .. 20 # {} /\ Len(NameOf(hello)) \in 1 .. 128
  => tupleDataFromC(Written([i \in 1 .. TLS_MAX_SERVER_NAME_LEN |-> 0], parse_sni(Segment)))
       = NameOf(hello)

(***************************************************************************)
(* However the message is cut, and although the results of the loads are   *)
(* not looked at, the filter never reads a name that the client has not    *)
(* sent: it gets a prefix of the name, and nothing from a message that has *)
(* none or is no ClientHello.                                              *)
(***************************************************************************)
NameNeverWrong ==
  LET name == parse_sni(Segment) IN
  Len(name) <= Len(NameOf(hello)) /\ name = SubSeq(NameOf(hello), 1, Len(name))
=============================================================================
