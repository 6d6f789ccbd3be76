---------------------------- MODULE TcShowProofs ----------------------------
(***************************************************************************)
(* The agent reads from the text of tc what the tables of the kernel hold, *)
(* of any length, and the spellings of the addresses are the same there    *)
(* where the addresses are.                                                *)
(***************************************************************************)
EXTENDS TcShowProperties, SequenceTheorems, TLAPS

-----------------------------------------------------------------------------
(* KubeChaos and TrafficControl compare addresses as values, where the     *)
(* agent compares their spellings.  For the addresses the agent asks about *)
(* the two are the same.                                                   *)

IPv4 == [1 .. 4 -> Octet]

-----------------------------------------------------------------------------

LEMMA FunctionIsSeq ==
  ASSUME NEW S, NEW n \in Nat, NEW f \in [1 .. n -> S]
  PROVE  f \in Seq(S) /\ Len(f) = n /\ DOMAIN f = 1 .. n
BY IsASeq

\* Two digits are enough for an octet.
LEMMA TwoDigits ==
  ASSUME NEW x \in Octet
  PROVE  16 * (x \div 16) + (x % 16) = x
BY DEF Octet

LEMMA IPv4IsSeq ==
  ASSUME NEW ip \in IPv4
  PROVE  Len(ip) = 4 /\ DOMAIN ip = 1 .. 4 /\ \A k \in 1 .. 4 : ip[k] \in Octet
<1>1. ip \in [1 .. 4 -> Octet]
  BY DEF IPv4
<1> QED
  BY <1>1, FunctionIsSeq

LEMMA DecodeEncode ==
  ASSUME NEW ip \in IPv4
  PROVE  Decode(Encode(ip)) = ip
<1>0. Len(ip) = 4
  BY IPv4IsSeq
<1> DEFINE digit(k) == IF k % 2 = 1 THEN ip[(k + 1) \div 2] \div 16 ELSE ip[k \div 2] % 16
<1>1. Encode(ip) = [k \in 1 .. 2 * 4 |-> digit(k)]
  BY <1>0, Zenon DEF Encode
<1>2. Len(Encode(ip)) = 8
  <2> HIDE DEF digit
  <2>1. Encode(ip) \in [1 .. 8 -> {digit(k) : k \in 1 .. 8}]
    BY <1>1
  <2> QED
    BY <2>1, FunctionIsSeq
<1>3. Decode(Encode(ip)) =
        [k \in 1 .. 4 |-> 16 * Encode(ip)[2 * k - 1] + Encode(ip)[2 * k]]
  BY <1>2 DEF Decode
<1>4. ASSUME NEW k \in 1 .. 4 PROVE 16 * digit(2 * k - 1) + digit(2 * k) = ip[k]
  <2>1. digit(2 * k - 1) = ip[k] \div 16 /\ digit(2 * k) = ip[k] % 16
    <3>1. (2 * k - 1) % 2 = 1 /\ (2 * k - 1 + 1) \div 2 = k
      OBVIOUS
    <3>2. (2 * k) % 2 # 1 /\ (2 * k) \div 2 = k
      OBVIOUS
    <3> QED
      BY <3>1, <3>2
  <2> QED
    BY <2>1, IPv4IsSeq, TwoDigits
<1>5. ASSUME NEW k \in 1 .. 4
      PROVE  Encode(ip)[2 * k - 1] = digit(2 * k - 1) /\ Encode(ip)[2 * k] = digit(2 * k)
  <2> HIDE DEF digit
  <2> QED
    BY <1>1
<1> HIDE DEF digit
<1>6. Decode(Encode(ip)) = [k \in 1 .. 4 |-> ip[k]]
  BY <1>3, <1>4, <1>5
<1> QED
  BY <1>6 DEF IPv4

-----------------------------------------------------------------------------

LEMMA FullOctet == MaskOctet(8) = 255
BY DEF MaskOctet

\* A mask of all bits leaves an address as it is.
LEMMA MaskedHost ==
  ASSUME NEW ip \in IPv4
  PROVE  Masked(ip, 32) = ip
<1>1. ip \in [1 .. 4 -> Octet] /\ Len(ip) = 4
  BY IPv4IsSeq DEF IPv4
<1>2. ASSUME NEW k \in 1 .. 4 PROVE BitsIn(k, 32) = 8 /\ ip[k] - (ip[k] % (256 - 255)) = ip[k]
  BY <1>1 DEF BitsIn, Octet
<1> QED
  BY <1>1, <1>2, FullOctet DEF Masked

LEMMA HostMask ==
  /\ IPMask(4, 32) = [k \in 1 .. 4 |-> 255]
  /\ IPMask(4, 32) \in IPv4
<1>1. \A k \in 1 .. 4 : BitsIn(k, 32) = 8
  BY DEF BitsIn
<1>2. IPMask(4, 32) = [k \in 1 .. 4 |-> 255]
  BY <1>1, FullOctet DEF IPMask
<1> QED
  BY <1>2 DEF IPv4, Octet

\* No shorter mask ends with eight bits.
LEMMA SizeOfHostMask == Size(IPMask(4, 32)) = 32
<1>1. Len(IPMask(4, 32)) = 4
  BY HostMask, IPv4IsSeq
<1>2. ASSUME NEW b \in 0 .. 31 PROVE IPMask(4, b)[4] # 255
  <2>1. BitsIn(4, b) \in 0 .. 7
    BY DEF BitsIn
  <2>2. \A n \in 0 .. 7 : MaskOctet(n) # 255
    BY DEF MaskOctet
  <2> QED
    BY <2>1, <2>2 DEF IPMask
<1>3. IPMask(4, 32)[4] = 255
  BY HostMask
<1>4. \A b \in 0 .. 32 : IPMask(4, 32) = IPMask(4, b) => b = 32
  BY <1>2, <1>3
<1> DEFINE mask == IPMask(4, 32)
           fits(b) == mask = IPMask(Len(mask), b)
<1>5. \A b : fits(b) <=> mask = IPMask(4, b)
  BY <1>1, Zenon
<1>6. fits(32) /\ (\A b \in 0 .. 8 * 4 : fits(b) => b = 32)
  BY <1>4, <1>5
<1>7. Size(mask) = IF \E b \in 0 .. 8 * 4 : fits(b)
                   THEN CHOOSE b \in 0 .. 8 * 4 : fits(b) ELSE 0
  BY <1>1, Zenon DEF Size
<1>8. 32 \in 0 .. 8 * 4
  OBVIOUS
<1> HIDE DEF mask, fits
<1>9. Size(mask) = 32
  BY <1>6, <1>7, <1>8
<1> QED
  BY <1>9 DEF mask

-----------------------------------------------------------------------------

\* The sweep compares what asciiCIDR makes of the filters with the addresses of
\* the listed pods as the main loop spells them: of every IPv4 address the two
\* are equal, so that no listed pod's filter is taken for an extra one
\* (pkg/flow/utils.go:100-134, pkg/flow/tcshaper.go:753, kube-chaos.go:162).
THEOREM SpellingsAgree ==
  ASSUME NEW ip \in IPv4
  PROVE  asciiCIDR(hexCIDR(Host(ip))) = Host(ip)
<1>1. hexCIDR(Host(ip)) = [ip |-> Encode(ip), mask |-> Encode(IPMask(4, 32))]
  BY MaskedHost, IPv4IsSeq DEF hexCIDR, Host
<1>2. Decode(Encode(ip)) = ip /\ Size(Decode(Encode(IPMask(4, 32)))) = 32
  BY DecodeEncode, HostMask, SizeOfHostMask
<1> QED
  BY <1>1, <1>2 DEF asciiCIDR, Host

\* findCIDRClass looks for the spelling of the pod's address in what tc shows of
\* the filters: it finds the filter of no other IPv4 address
\* (pkg/flow/tcshaper.go:91-129).
THEOREM SpellingsDiffer ==
  ASSUME NEW ip \in IPv4, NEW jp \in IPv4, hexCIDR(Host(ip)) = hexCIDR(Host(jp))
  PROVE  ip = jp
BY SpellingsAgree DEF Host

-----------------------------------------------------------------------------
(* The text of a table.                                                    *)

Entry == [cidr : [ip : IPv4, bits : {32}], flowid : Nat, handle : Nat]

Header(f, words) == Line("filter", words, f.flowid, f.handle, NoHex)
Match(f)         == Line("match", 4, 0, 0, hexCIDR(f.cidr))

LEMMA TableType ==
  ASSUME NEW table \in Tables
  PROVE  /\ table \in Seq(Entry) /\ Len(table) \in Nat
         /\ \A j \in 1 .. Len(table) : table[j] \in Entry
<1>1. table \in Seq(Entry)
  BY ShownAssumption DEF Entry, IPv4
<1> QED
  BY <1>1, LenProperties

\* Two lines, and two for each filter.
LEMMA TextOfFilters ==
  ASSUME NEW table \in Tables, NEW words
  PROVE  LET text == ShowFilters(table, words)
         IN  /\ Len(text) = IF table = <<>> THEN 0 ELSE 2 * Len(table) + 2
             /\ table # <<>> => text[1].kind = "filter" /\ text[2].kind = "filter"
             /\ \A j \in 1 .. Len(table) :
                  text[2 * j + 1] = Header(table[j], words) /\ text[2 * j + 2] = Match(table[j])
<1>1. CASE table = <<>>
  BY <1>1 DEF ShowFilters
<1>2. CASE table # <<>>
  <2> DEFINE n    == 2 * Len(table)
             body(k) == LET f == table[(k + 1) \div 2]
                        IN  IF k % 2 = 1 THEN Header(f, words) ELSE Match(f)
             top  == <<Line("filter", 8, 0, 0, NoHex), Line("filter", 13, 0, 0, NoHex)>>
             rest == [k \in 1 .. n |-> body(k)]
             S    == {top[1], top[2]} \cup {body(k) : k \in 1 .. n}
  <2>1. ShowFilters(table, words) = top \o rest
    BY <1>2 DEF ShowFilters, Header, Match
  <2>2. n \in Nat
    BY TableType
  <2>3. top \in Seq(S) /\ Len(top) = 2
    OBVIOUS
  <2>4. rest \in Seq(S) /\ Len(rest) = n
    <3>1. rest \in [1 .. n -> S]
      OBVIOUS
    <3> QED
      BY <2>2, <3>1, FunctionIsSeq
  <2> HIDE DEF S, body, n, top, rest
  <2>5. /\ Len(top \o rest) = 2 + n
        /\ \A i \in 1 .. 2 + n : (top \o rest)[i] = IF i <= 2 THEN top[i] ELSE rest[i - 2]
    <3>1. /\ Len(top \o rest) = Len(top) + Len(rest)
          /\ \A i \in 1 .. Len(top) + Len(rest) :
               (top \o rest)[i] = IF i <= Len(top) THEN top[i] ELSE rest[i - Len(top)]
      BY <2>3, <2>4, ConcatProperties, Zenon
    <3> QED
      BY <2>3, <2>4, <3>1
  <2>6. n = 2 * Len(table) /\ Len(table) \in Nat
    BY TableType DEF n
  <2>7. (top \o rest)[1].kind = "filter" /\ (top \o rest)[2].kind = "filter"
    BY <2>5, <2>6 DEF Line, top
  <2>8. ASSUME NEW j \in 1 .. Len(table)
        PROVE  (top \o rest)[2 * j + 1] = Header(table[j], words) /\ (top \o rest)[2 * j + 2] = Match(table[j])
    <3>1. /\ (top \o rest)[2 * j + 1] = rest[2 * j - 1] /\ (top \o rest)[2 * j + 2] = rest[2 * j]
          /\ 2 * j - 1 \in 1 .. n /\ 2 * j \in 1 .. n
      BY <2>5, <2>6
    <3>2. rest[2 * j - 1] = body(2 * j - 1) /\ rest[2 * j] = body(2 * j)
      BY <3>1 DEF rest
    <3>3. /\ ((2 * j - 1) + 1) \div 2 = j /\ (2 * j + 1) \div 2 = j
          /\ (2 * j - 1) % 2 = 1 /\ (2 * j) % 2 # 1
      OBVIOUS
    <3>4. body(2 * j - 1) = Header(table[j], words) /\ body(2 * j) = Match(table[j])
      BY <3>3 DEF body
    <3> QED
      BY <3>1, <3>2, <3>4
  <2> QED
    BY <1>2, <2>1, <2>5, <2>6, <2>7, <2>8
<1> QED
  BY <1>1, <1>2

\* The text of an address is looked for, and is found in the match of no other.
LEMMA SameHex ==
  ASSUME NEW c \in Cidrs, Parses(c), NEW f \in Entry
  PROVE  hexCIDR(f.cidr) = hexCIDR(c) <=> f.cidr = c
<1>1. /\ c \in [ip : Seq(Octet), bits : {32}] /\ c = Host(c.ip)
      /\ f.cidr = Host(f.cidr.ip) /\ f.cidr.ip \in IPv4
  BY ShownAssumption DEF Host, Entry
<1>2. CASE Len(c.ip) = 4
  <2>1. c.ip \in IPv4
    BY <1>1, <1>2, LenProperties DEF IPv4
  <2> QED
    BY <1>1, <2>1, SpellingsDiffer
<1>3. CASE Len(c.ip) # 4
  <2>1. hexCIDR(c).ip = <<>>
    BY <1>3 DEF hexCIDR
  <2>2. Len(f.cidr.ip) = 4
    BY <1>1, IPv4IsSeq
  <2>3. hexCIDR(f.cidr).ip = Encode(f.cidr.ip)
    BY <1>1, <2>2, MaskedHost DEF hexCIDR, Host
  <2>4. Decode(Encode(f.cidr.ip)) = f.cidr.ip
    BY <1>1, DecodeEncode
  <2>5. Encode(f.cidr.ip) # <<>>
    BY <2>2 DEF Encode
  <2> QED
    BY <1>3, <2>1, <2>2, <2>3, <2>5
<1> QED
  BY <1>2, <1>3

-----------------------------------------------------------------------------
(* findCIDRClass.                                                          *)

\* No filter so far is of the address, and the header of the filter whose match
\* comes next has been kept.
NotFoundYet ==
  \A j \in 1 .. Len(shown) :
    /\ 2 * j + 2 < at => shown[j].cidr # arg
    /\ at = 2 * j + 2 => filter = lines[2 * j + 1]

FindInv ==
  op = "findCIDRClass" =>
    /\ arg \in Cidrs /\ shown \in Tables /\ at \in Nat \ {0}
    /\ \E words \in HeaderSizes : lines = ShowFilters(shown, words)
    /\ ~done => NotFoundYet
    /\ FindReadsTheTable

\* What is found is the first filter of the address.
LEMMA FoundFirst ==
  ASSUME shown \in Tables, NEW j \in 1 .. Len(shown), shown[j].cidr = arg,
         \A i \in 1 .. Len(shown) : i < j => shown[i].cidr # arg
  PROVE  shown[j] \in {f \in Entries : Kernel!Finds(f, "egress", arg)}
<1>1. shown[j] \in Entries
  BY DEF Entries
<1>2. Kernel!Matching("egress", arg) = {f \in Entries : f.cidr = arg}
  BY DEF Kernel!Matching
<1>3. ASSUME NEW f \in Entries, f.cidr = arg PROVE shown[j].handle <= f.handle
  <2>1. PICK k \in 1 .. Len(shown) : f = shown[k]
    BY DEF Entries
  <2>2. Len(shown) \in Nat /\ j <= k
    BY <1>3, <2>1, TableType
  <2> QED
    BY <2>1, <2>2, ShownAssumption
<1> QED
  BY <1>1, <1>2, <1>3 DEF Kernel!Finds

LEMMA NothingToFind ==
  ASSUME \A j \in 1 .. Len(shown) : shown[j].cidr # arg
  PROVE  {f \in Entries : Kernel!Finds(f, "egress", arg)} = {}
BY DEF Entries, Kernel!Finds, Kernel!Matching

LEMMA FindKeepsInv ==
  ASSUME FindInv, Find
  PROVE  FindInv'
<1> DEFINE hits == {f \in Entries : Kernel!Finds(f, "egress", arg)}
<1>1. /\ op = "findCIDRClass" /\ ~done /\ UNCHANGED <<op, arg, shown, lines>>
      /\ arg \in Cidrs /\ shown \in Tables /\ at \in Nat \ {0} /\ NotFoundYet
  BY DEF Find, Scanning, Running, FindInv
<1>2. PICK words \in HeaderSizes : lines = ShowFilters(shown, words)
  BY <1>1 DEF FindInv
<1>3. hits' = hits
  BY <1>1 DEF Entries, Kernel!Finds, Kernel!Matching
<1>4. /\ Len(shown) \in Nat /\ shown \in Seq(Entry)
      /\ \A j \in 1 .. Len(shown) : shown[j] \in Entry
  BY <1>1, TableType
<1>5. /\ Len(lines) = IF shown = <<>> THEN 0 ELSE 2 * Len(shown) + 2
      /\ shown # <<>> => lines[1].kind = "filter" /\ lines[2].kind = "filter"
      /\ \A j \in 1 .. Len(shown) :
           lines[2 * j + 1] = Header(shown[j], words) /\ lines[2 * j + 2] = Match(shown[j])
  BY <1>1, <1>2, TextOfFilters
<1> SUFFICES /\ at' \in Nat \ {0}
             /\ ~done' => NotFoundYet'
             /\ FindReadsTheTable'
  BY <1>1, <1>2 DEF FindInv
<1>6. CASE ~Parses(arg) /\ Answer(Failed)
  <2>1. ret'.err /\ ~ret'.found /\ done' /\ at' = at
    BY <1>6 DEF Answer, Return, Failed
  <2> QED
    BY <1>1, <1>3, <1>6, <2>1 DEF FindReadsTheTable
<1>7. CASE Parses(arg) /\ AtEnd /\ Answer(Absent)
  <2>1. ~ret'.err /\ ~ret'.found /\ done' /\ at' = at
    BY <1>7 DEF Answer, Return, Absent
  <2>2. \A j \in 1 .. Len(shown) : shown[j].cidr # arg
    <3> SUFFICES ASSUME NEW j \in 1 .. Len(shown) PROVE 2 * j + 2 < at
      BY <1>1 DEF NotFoundYet
    <3> QED
      BY <1>1, <1>4, <1>5, <1>7, EmptySeq DEF AtEnd
  <2>3. hits = {}
    BY <2>2, NothingToFind
  <2> QED
    BY <1>1, <1>3, <1>7, <2>1, <2>3 DEF FindReadsTheTable
<1>8. CASE /\ Parses(arg) /\ ~AtEnd /\ Here.kind = "filter"
           /\ Remember(Here) /\ Advance
  <2>1. at' = at + 1 /\ done' = done /\ filter' = lines[at]
    BY <1>8 DEF Remember, Advance, Continue, Here
  <2>2. ASSUME NEW j \in 1 .. Len(shown), at = 2 * j + 2 PROVE FALSE
    <3>1. lines[at] = Match(shown[j])
      BY <1>5, <2>2
    <3>2. lines[at].kind = "match"
      BY <3>1 DEF Match, Line
    <3> QED
      BY <1>8, <3>2 DEF Here
  <2>3. NotFoundYet'
    BY <1>1, <1>4, <2>1, <2>2 DEF NotFoundYet
  <2> QED
    BY <1>1, <2>1, <2>3 DEF FindReadsTheTable, Returned
<1>9. CASE /\ Parses(arg) /\ ~AtEnd /\ Here.kind # "filter"
           /\ IF Here.hex # hexCIDR(arg) THEN Advance /\ UNCHANGED <<filter, found>>
              ELSE IF filter.words # 19 THEN Answer(Failed)
              ELSE Answer(Result([flowid |-> filter.class, handle |-> filter.handle]))
  <2>0. Parses(arg) /\ at <= Len(lines) /\ lines[at].kind # "filter" /\ shown # <<>>
    BY <1>1, <1>4, <1>5, <1>9 DEF AtEnd, Here
  <2>1. PICK j \in 1 .. Len(shown) : at = 2 * j + 2
    <3>1. at # 1 /\ at # 2
      BY <1>5, <2>0
    <3>2. ASSUME NEW j \in 1 .. Len(shown) PROVE at # 2 * j + 1
      <4>1. lines[2 * j + 1] = Header(shown[j], words)
        BY <1>5
      <4>2. lines[2 * j + 1].kind = "filter"
        BY <4>1 DEF Header, Line
      <4> QED
        BY <2>0, <4>2
    <3>3. \E j \in 1 .. Len(shown) : at = 2 * j + 2 \/ at = 2 * j + 1
      <4> DEFINE j == (at - 1) \div 2
                 k == (at - 2) \div 2
      <4>1. at = 2 * k + 2 \/ at = 2 * j + 1
        BY <1>1
      <4>2. at = 2 * k + 2 => k \in 1 .. Len(shown)
        BY <1>1, <1>4, <1>5, <2>0, <3>1
      <4>3. at = 2 * j + 1 => j \in 1 .. Len(shown)
        BY <1>1, <1>4, <1>5, <2>0, <3>1
      <4> HIDE DEF j, k
      <4> QED
        BY <4>1, <4>2, <4>3
    <3> QED
      BY <3>2, <3>3
  <2>2. Here.hex = hexCIDR(arg) <=> shown[j].cidr = arg
    <3>1. lines[at] = Match(shown[j])
      BY <1>5, <2>1
    <3>2. lines[at].hex = hexCIDR(shown[j].cidr)
      BY <3>1 DEF Match, Line
    <3> QED
      BY <1>1, <1>4, <2>0, <3>2, SameHex DEF Here
  <2>3. filter = Header(shown[j], words)
    BY <1>1, <1>5, <2>1 DEF NotFoundYet
  <2>4. lines[3].words = words /\ filter.words = words
    <3>1. 1 \in 1 .. Len(shown) /\ 2 * 1 + 1 = 3
      BY <1>4, <2>1
    <3>2. lines[2 * 1 + 1] = Header(shown[1], words)
      BY <1>5, <3>1
    <3>3. Header(shown[1], words).words = words /\ Header(shown[j], words).words = words
      BY DEF Header, Line
    <3> QED
      BY <2>3, <3>1, <3>2, <3>3
  <2>5. CASE shown[j].cidr # arg
    <3>1. at' = at + 1 /\ done' = done
      BY <1>9, <2>2, <2>5 DEF Advance, Continue
    <3>2. NotFoundYet'
      BY <1>1, <1>4, <2>1, <2>5, <3>1 DEF NotFoundYet
    <3> QED
      BY <1>1, <3>1, <3>2 DEF FindReadsTheTable, Returned
  <2>6. CASE shown[j].cidr = arg
    <3>1. shown[j] \in hits
      BY <1>1, <1>4, <2>1, <2>6, FoundFirst DEF NotFoundYet
    <3>2. CASE words # 19
      <4>1. ret'.err /\ ~ret'.found /\ done' /\ at' = at
        BY <1>9, <2>2, <2>4, <2>6, <3>2 DEF Answer, Return, Failed
      <4> QED
        BY <1>1, <1>3, <1>9, <2>4, <3>1, <3>2, <4>1 DEF FindReadsTheTable
    <3>3. CASE words = 19
      <4>1. /\ done' /\ at' = at
            /\ ret' = Result([flowid |-> shown[j].flowid, handle |-> shown[j].handle])
        BY <1>9, <2>2, <2>3, <2>4, <2>6, <3>3 DEF Answer, Return, Header, Line
      <4>2. /\ ~ret'.err /\ ret'.found
            /\ ret'.value = [flowid |-> shown[j].flowid, handle |-> shown[j].handle]
        BY <4>1 DEF Result
      <4> HIDE DEF hits
      <4>3. hits # {} /\ \E f \in hits : ret'.value = [flowid |-> f.flowid, handle |-> f.handle]
        BY <3>1, <4>2
      <4> QED
        BY <1>1, <1>3, <1>9, <2>4, <3>3, <4>1, <4>2, <4>3 DEF FindReadsTheTable, hits
    <3> QED
      BY <3>2, <3>3
  <2> QED
    BY <2>5, <2>6
<1> QED
  BY <1>6, <1>7, <1>8, <1>9 DEF Find

LEMMA NextFind == FindInv /\ [ShowNext]_<<callVars, scanVars>> => FindInv'
<1> SUFFICES ASSUME FindInv, [ShowNext]_<<callVars, scanVars>> PROVE FindInv'
  OBVIOUS
<1>1. CASE UNCHANGED <<callVars, scanVars>>
  BY <1>1 DEF callVars, scanVars, FindInv, NotFoundYet, FindReadsTheTable, Returned, Entries,
              Kernel!Finds, Kernel!Matching
<1>2. CASE CallFind
  <2>1. PICK c \in Cidrs, table \in Tables, words \in HeaderSizes :
          Scan("findCIDRClass", c, table, ShowFilters(table, words))
    BY <1>2 DEF CallFind
  <2>2. /\ ~done' /\ at' = 1 /\ arg' = c /\ shown' = table /\ lines' = ShowFilters(table, words)
    BY <2>1 DEF Scan, Call
  <2>3. NotFoundYet'
    BY <2>2, TableType DEF NotFoundYet
  <2> QED
    BY <2>2, <2>3 DEF FindInv, FindReadsTheTable, Returned
<1>3. CASE CallGetCIDRs \/ CallNextClassID \/ CallClassExists
  BY <1>3 DEF CallGetCIDRs, CallNextClassID, CallClassExists, Scan, Call, FindInv
<1>4. CASE GetCIDRs \/ NextClassID \/ ClassExists
  BY <1>4 DEF GetCIDRs, NextClassID, ClassExists, Scanning, Running, FindInv
<1> QED
  BY <1>1, <1>2, <1>3, <1>4, FindKeepsInv DEF ShowNext

\* For every table findCIDRClass returns the class and the handle of the first
\* filter of the address, or nothing where there is none, or fails where the
\* address is missing or the headers are not as expected (tcshaper.go:91-129).
THEOREM FilterIsFound == ShowSpec => []FindReadsTheTable
<1>1. CallsInit /\ ScanInit => FindInv
  BY DEF CallsInit, FindInv
<1>2. FindInv => FindReadsTheTable
  BY DEF FindInv, FindReadsTheTable, Returned
<1> QED
  BY <1>1, <1>2, NextFind, PTL DEF ShowSpec

-----------------------------------------------------------------------------
(* nextClassID and classExists.                                            *)

ClassLine == [id : Nat, words : Nat]

LEMMA ListType ==
  ASSUME NEW list \in ClassLists
  PROVE  Len(list) \in Nat /\ Len(ShowClasses(list)) = Len(list)
<1>1. list \in Seq(ClassLine)
  BY ShownAssumption DEF ClassLine
<1>2. Len(list) \in Nat
  BY <1>1, LenProperties
<1> DEFINE n == Len(list)
           e(k) == Line("class", list[k].words, list[k].id, 0, NoHex)
           S == {e(k) : k \in 1 .. n}
<1>3. ShowClasses(list) = [k \in 1 .. n |-> e(k)]
  BY DEF ShowClasses
<1>4. ShowClasses(list) \in [1 .. n -> S]
  BY <1>3
<1> HIDE DEF n, e, S
<1>5. Len(ShowClasses(list)) = n
  BY <1>2, <1>4, FunctionIsSeq DEF n
<1> QED
  BY <1>2, <1>5 DEF n

ListIsShown == shown \in ClassLists /\ lines = ShowClasses(shown) /\ at \in 1 .. Len(shown) + 1

LEMMA ListLine ==
  ASSUME ListIsShown
  PROVE  /\ Len(shown) \in Nat /\ (AtEnd <=> at = Len(shown) + 1)
         /\ ~AtEnd => Here.class = shown[at].id /\ Here.words = shown[at].words
         /\ ~AtEnd => at \in 1 .. Len(shown)
<1>1. Len(shown) \in Nat /\ Len(lines) = Len(shown)
  BY ListType DEF ListIsShown
<1>2. AtEnd <=> at = Len(shown) + 1
  BY <1>1 DEF AtEnd, ListIsShown
<1>3. ASSUME ~AtEnd PROVE at \in 1 .. Len(shown)
  BY <1>1, <1>2, <1>3 DEF ListIsShown
<1>4. ASSUME ~AtEnd PROVE lines[at] = Line("class", shown[at].words, shown[at].id, 0, NoHex)
  BY <1>3, <1>4 DEF ListIsShown, ShowClasses
<1> QED
  BY <1>1, <1>2, <1>3, <1>4 DEF Here, Line

\* The ids of the lines so far have been collected, and they were as expected.
CollectedSoFar ==
  /\ found \in Seq(Nat) /\ Len(found) = at - 1
  /\ \A k \in 1 .. at - 1 : found[k] = shown[k].id /\ shown[k].words \in {14, 16}

NextClassInv ==
  op = "nextClassID" => ListIsShown /\ (~done => CollectedSoFar) /\ NextClassIsFree

LEMMA NextClassKeepsInv ==
  ASSUME NextClassInv, NextClassID
  PROVE  NextClassInv'
<1>1. /\ op = "nextClassID" /\ ~done /\ UNCHANGED <<op, arg, shown, lines>>
      /\ ListIsShown /\ CollectedSoFar
  BY DEF NextClassID, Scanning, Running, NextClassInv
<1>2. /\ Len(shown) \in Nat /\ (AtEnd <=> at = Len(shown) + 1)
      /\ ~AtEnd => Here.class = shown[at].id /\ Here.words = shown[at].words
      /\ ~AtEnd => at \in 1 .. Len(shown)
  BY <1>1, ListLine
<1>3. /\ ListIsShown /\ at' = at => ListIsShown'
      /\ Entries' = Entries /\ Ids' = Ids
  BY <1>1 DEF ListIsShown, Entries, Ids
<1>4. CASE ~AtEnd /\ Here.words \in {14, 16} /\ found' = Append(found, Here.class) /\ Advance
  <2>1. at' = at + 1 /\ done' = done /\ found' = Append(found, shown[at].id)
    BY <1>2, <1>4 DEF Advance, Continue
  <2>2. shown[at].id \in Nat
    <3>1. shown \in Seq(ClassLine)
      BY <1>1, ShownAssumption DEF ListIsShown, ClassLine
    <3>2. shown[at] \in ClassLine
      BY <1>2, <1>4, <3>1, LenProperties
    <3> QED
      BY <3>2 DEF ClassLine
  <2>3. /\ found' \in Seq(Nat) /\ Len(found') = at
        /\ \A k \in 1 .. at - 1 : found'[k] = found[k]
        /\ found'[at] = shown[at].id
    <3>1. found \in Seq(Nat) /\ Len(found) = at - 1 /\ at \in Nat /\ Len(found) + 1 = at
      BY <1>1, <1>2, <1>4 DEF CollectedSoFar
    <3> QED
      BY <2>1, <2>2, <3>1, AppendProperties
  <2>4. CollectedSoFar'
    BY <1>1, <1>2, <1>4, <2>1, <2>3 DEF CollectedSoFar
  <2>5. ListIsShown'
    BY <1>1, <1>2, <1>4, <2>1 DEF ListIsShown
  <2> QED
    BY <1>1, <2>1, <2>4, <2>5 DEF NextClassInv, NextClassIsFree, Returned
<1>5. CASE ~AtEnd /\ Here.words \notin {14, 16} /\ Answer(Failed)
  <2>1. done' /\ at' = at /\ ret'.err
    BY <1>5 DEF Answer, Return, Failed
  <2>2. shown[at] \in Entries /\ shown[at].words \notin {14, 16}
    BY <1>2, <1>5 DEF Entries
  <2> QED
    BY <1>1, <1>3, <2>1, <2>2 DEF NextClassInv, NextClassIsFree
<1>6. ASSUME AtEnd PROVE Free = (1 .. LastClass) \ Ids
  <2>1. Len(found) = Len(shown) /\ \A k \in 1 .. Len(shown) : found[k] = shown[k].id
    BY <1>1, <1>2, <1>6 DEF CollectedSoFar
  <2> QED
    BY <2>1 DEF Free, Ids, Entries
<1>7. CASE AtEnd /\ Free = {} /\ Answer(Failed)
  <2>1. done' /\ at' = at /\ ret'.err
    BY <1>7 DEF Answer, Return, Failed
  <2> QED
    BY <1>1, <1>3, <1>6, <1>7, <2>1 DEF NextClassInv, NextClassIsFree
<1>8. ASSUME NEW n \in Free, AtEnd, \A m \in Free : n <= m, Answer(Result(n)) PROVE NextClassInv'
  <2>1. done' /\ at' = at /\ ret'.found /\ ret'.value = n
    BY <1>8 DEF Answer, Return, Result
  <2>2. Kernel!IsNextClassID(n, Ids)
    BY <1>6, <1>8 DEF Kernel!IsNextClassID, Kernel!ClassIds
  <2> QED
    BY <1>1, <1>3, <2>1, <2>2 DEF NextClassInv, NextClassIsFree, Kernel!IsNextClassID, Kernel!ClassIds
<1> QED
  BY <1>4, <1>5, <1>7, <1>8 DEF NextClassID

LEMMA NextNextClass == NextClassInv /\ [ShowNext]_<<callVars, scanVars>> => NextClassInv'
<1> SUFFICES ASSUME NextClassInv, [ShowNext]_<<callVars, scanVars>> PROVE NextClassInv'
  OBVIOUS
<1>1. CASE UNCHANGED <<callVars, scanVars>>
  BY <1>1 DEF callVars, scanVars, NextClassInv, ListIsShown, CollectedSoFar, NextClassIsFree,
              Returned, Entries, Ids, Kernel!IsNextClassID, Kernel!ClassIds
<1>2. CASE CallNextClassID
  <2>1. PICK list \in ClassLists : Scan("nextClassID", Nothing, list, ShowClasses(list))
    BY <1>2 DEF CallNextClassID
  <2>2. ~done' /\ at' = 1 /\ shown' = list /\ lines' = ShowClasses(list) /\ found' = <<>>
    BY <2>1 DEF Scan, Call
  <2>3. CollectedSoFar' /\ ListIsShown'
    BY <2>2, ListType, EmptySeq DEF CollectedSoFar, ListIsShown
  <2> QED
    BY <2>2, <2>3 DEF NextClassInv, NextClassIsFree, Returned
<1>3. CASE CallFind \/ CallGetCIDRs \/ CallClassExists
  BY <1>3 DEF CallFind, CallGetCIDRs, CallClassExists, Scan, Call, NextClassInv
<1>4. CASE Find \/ GetCIDRs \/ ClassExists
  BY <1>4 DEF Find, GetCIDRs, ClassExists, Scanning, Running, NextClassInv
<1> QED
  BY <1>1, <1>2, <1>3, <1>4, NextClassKeepsInv DEF ShowNext

\* For every list of classes nextClassID returns the least id that none of them
\* has, and fails only when all are taken or a line is not as expected
\* (tcshaper.go:55-88).
THEOREM FreeIdIsFound == ShowSpec => []NextClassIsFree
<1>1. CallsInit /\ ScanInit => NextClassInv
  BY DEF CallsInit, NextClassInv
<1>2. NextClassInv => NextClassIsFree
  BY DEF NextClassInv, NextClassIsFree, Returned
<1> QED
  BY <1>1, <1>2, NextNextClass, PTL DEF ShowSpec

-----------------------------------------------------------------------------

\* No class so far is the wanted one.
NotMetYet == \A k \in 1 .. at - 1 : shown[k].id # arg

ExistsInv ==
  op = "classExists" => ListIsShown /\ (~done => NotMetYet) /\ ClassExistsReadsTheTable

LEMMA ExistsKeepsInv ==
  ASSUME ExistsInv, ClassExists
  PROVE  ExistsInv'
<1>1. /\ op = "classExists" /\ ~done /\ UNCHANGED <<op, arg, shown, lines>>
      /\ ListIsShown /\ NotMetYet
  BY DEF ClassExists, Scanning, Running, ExistsInv
<1>2. /\ Len(shown) \in Nat /\ (AtEnd <=> at = Len(shown) + 1)
      /\ ~AtEnd => Here.class = shown[at].id
      /\ ~AtEnd => at \in 1 .. Len(shown)
  BY <1>1, ListLine
<1>3. at' = at => ListIsShown'
  BY <1>1 DEF ListIsShown
<1>4. Kernel!HasClass("egress", arg)' <=> \E k \in 1 .. Len(shown) : shown[k].id = arg
  BY <1>1 DEF Kernel!HasClass, Ids, Entries
<1>5. CASE AtEnd /\ Answer(Absent)
  <2>1. done' /\ at' = at /\ ~ret'.err /\ ~ret'.found
    BY <1>5 DEF Answer, Return, Absent
  <2>2. \A k \in 1 .. Len(shown) : shown[k].id # arg
    BY <1>1, <1>2, <1>5 DEF NotMetYet
  <2> QED
    BY <1>1, <1>3, <1>4, <2>1, <2>2 DEF ExistsInv, ClassExistsReadsTheTable
<1>6. CASE ~AtEnd /\ Here.class = arg /\ Answer(Result(arg))
  <2>1. done' /\ at' = at /\ ~ret'.err /\ ret'.found
    BY <1>6 DEF Answer, Return, Result
  <2>2. \E k \in 1 .. Len(shown) : shown[k].id = arg
    BY <1>2, <1>6
  <2> QED
    BY <1>1, <1>3, <1>4, <2>1, <2>2 DEF ExistsInv, ClassExistsReadsTheTable
<1>7. CASE ~AtEnd /\ Here.class # arg /\ Advance
  <2>1. at' = at + 1 /\ ~done'
    BY <1>1, <1>7 DEF Advance, Continue
  <2>2. NotMetYet' /\ ListIsShown'
    BY <1>1, <1>2, <1>7, <2>1 DEF NotMetYet, ListIsShown
  <2> QED
    BY <1>1, <2>1, <2>2 DEF ExistsInv, ClassExistsReadsTheTable, Returned
<1> QED
  BY <1>5, <1>6, <1>7 DEF ClassExists

LEMMA NextExists == ExistsInv /\ [ShowNext]_<<callVars, scanVars>> => ExistsInv'
<1> SUFFICES ASSUME ExistsInv, [ShowNext]_<<callVars, scanVars>> PROVE ExistsInv'
  OBVIOUS
<1>1. CASE UNCHANGED <<callVars, scanVars>>
  BY <1>1 DEF callVars, scanVars, ExistsInv, ListIsShown, NotMetYet, ClassExistsReadsTheTable,
              Returned, Entries, Ids, Kernel!HasClass
<1>2. CASE CallClassExists
  <2>1. PICK c \in 1 .. LastClass, list \in ClassLists :
          Scan("classExists", c, list, ShowClasses(list))
    BY <1>2 DEF CallClassExists
  <2>2. ~done' /\ at' = 1 /\ shown' = list /\ lines' = ShowClasses(list)
    BY <2>1 DEF Scan, Call
  <2>3. NotMetYet' /\ ListIsShown'
    BY <2>2, ListType DEF NotMetYet, ListIsShown
  <2> QED
    BY <2>2, <2>3 DEF ExistsInv, ClassExistsReadsTheTable, Returned
<1>3. CASE CallFind \/ CallGetCIDRs \/ CallNextClassID
  BY <1>3 DEF CallFind, CallGetCIDRs, CallNextClassID, Scan, Call, ExistsInv
<1>4. CASE Find \/ GetCIDRs \/ NextClassID
  BY <1>4 DEF Find, GetCIDRs, NextClassID, Scanning, Running, ExistsInv
<1> QED
  BY <1>1, <1>2, <1>3, <1>4, ExistsKeepsInv DEF ShowNext

\* For every list of classes classExists tells whether the class is among them
\* (tcshaper.go:132-158).
THEOREM ClassIsSeen == ShowSpec => []ClassExistsReadsTheTable
<1>1. CallsInit /\ ScanInit => ExistsInv
  BY DEF CallsInit, ExistsInv
<1>2. ExistsInv => ClassExistsReadsTheTable
  BY DEF ExistsInv, ClassExistsReadsTheTable, Returned
<1> QED
  BY <1>1, <1>2, NextExists, PTL DEF ShowSpec

-----------------------------------------------------------------------------
(* getCIDRs.                                                               *)

Cidr == [ip : IPv4, bits : {32}]

\* The addresses of the first n filters have been collected, as the main loop
\* spells them, and the lines of the next one come next.
Collected(n) ==
  /\ found \in Seq(Cidr) /\ Len(found) = n /\ \A k \in 1 .. n : found[k] = shown[k].cidr
  /\ (n = 0 /\ at \in {1, 2}) \/ at = 2 * n + 3 \/ at = 2 * n + 4

CidrsInv ==
  op = "getCIDRs" =>
    /\ shown \in Tables
    /\ \E words \in HeaderSizes : lines = ShowFilters(shown, words)
    /\ ~done => \E n \in 0 .. Len(shown) : Collected(n)
    /\ CIDRsKeepTheirSpelling

LEMMA CidrsKeepInv ==
  ASSUME CidrsInv, GetCIDRs
  PROVE  CidrsInv'
<1>1. /\ op = "getCIDRs" /\ ~done /\ UNCHANGED <<op, arg, shown, lines>> /\ shown \in Tables
  BY DEF GetCIDRs, Scanning, Running, CidrsInv
<1>2. PICK words \in HeaderSizes : lines = ShowFilters(shown, words)
  BY <1>1 DEF CidrsInv
<1>3. PICK n \in 0 .. Len(shown) : Collected(n)
  BY <1>1 DEF CidrsInv
<1>4. Len(shown) \in Nat /\ \A j \in 1 .. Len(shown) : shown[j] \in Entry
  BY <1>1, TableType
<1>5. /\ Len(lines) = IF shown = <<>> THEN 0 ELSE 2 * Len(shown) + 2
      /\ shown # <<>> => lines[1].kind = "filter" /\ lines[2].kind = "filter"
      /\ \A j \in 1 .. Len(shown) :
           lines[2 * j + 1] = Header(shown[j], words) /\ lines[2 * j + 2] = Match(shown[j])
  BY <1>1, <1>2, TextOfFilters
<1>6. shown # <<>> => Len(shown) > 0
  BY <1>1, <1>4, TableType, EmptySeq
<1>7. shown = <<>> => Len(shown) = 0
  OBVIOUS
<1> SUFFICES /\ ~done' => \E m \in 0 .. Len(shown) : Collected(m)'
             /\ CIDRsKeepTheirSpelling'
  BY <1>1, <1>2 DEF CidrsInv
<1>8. CASE AtEnd /\ Answer(Result(found))
  <2>1. n = Len(shown)
    BY <1>3, <1>4, <1>5, <1>6, <1>7, <1>8 DEF Collected, AtEnd
  <2>2. found = [k \in 1 .. Len(shown) |-> shown[k].cidr]
    <3>1. found \in Seq(Cidr) /\ Len(found) = Len(shown)
          /\ \A k \in 1 .. Len(shown) : found[k] = shown[k].cidr
      BY <1>3, <2>1 DEF Collected
    <3>2. found \in [1 .. Len(shown) -> Cidr]
      BY <3>1, LenProperties
    <3> QED
      BY <3>1, <3>2
  <2>3. done' /\ ret'.found /\ ret'.value = found
    BY <1>8 DEF Answer, Return, Result
  <2> QED
    BY <1>1, <2>2, <2>3 DEF CIDRsKeepTheirSpelling
<1>9. ASSUME ~AtEnd
      PROVE  \/ at \in {1, 2} /\ n = 0 /\ lines[at].kind = "filter"
             \/ at = 2 * n + 3 /\ lines[at].kind = "filter" /\ n + 1 \in 1 .. Len(shown)
             \/ at = 2 * n + 4 /\ lines[at] = Match(shown[n + 1]) /\ n + 1 \in 1 .. Len(shown)
  <2>1. shown # <<>> /\ at <= Len(lines)
    BY <1>3, <1>4, <1>5, <1>9 DEF Collected, AtEnd
  <2>2. at = 2 * n + 3 \/ at = 2 * n + 4 => n + 1 \in 1 .. Len(shown)
    BY <1>4, <1>5, <2>1
  <2>3. n + 1 \in 1 .. Len(shown) =>
          lines[2 * (n + 1) + 1] = Header(shown[n + 1], words) /\ lines[2 * (n + 1) + 2] = Match(shown[n + 1])
    BY <1>5
  <2>4. 2 * (n + 1) + 1 = 2 * n + 3 /\ 2 * (n + 1) + 2 = 2 * n + 4
    BY <1>4
  <2>5. Header(shown[n + 1], words).kind = "filter"
    BY DEF Header, Line
  <2>6. (n = 0 /\ at \in {1, 2}) \/ at = 2 * n + 3 \/ at = 2 * n + 4
    BY <1>3 DEF Collected
  <2>7. lines[1].kind = "filter" /\ lines[2].kind = "filter"
    BY <1>5, <2>1
  <2> QED
    BY <2>2, <2>3, <2>4, <2>5, <2>6, <2>7
<1>10. CASE ~AtEnd /\ Here.kind # "match" /\ Advance /\ UNCHANGED found
  <2>1. at' = at + 1 /\ done' = done
    BY <1>10 DEF Advance, Continue
  <2>2. lines[at].kind # "match"
    BY <1>10 DEF Here
  <2>3. Match(shown[n + 1]).kind = "match"
    BY DEF Match, Line
  <2>4. (at \in {1, 2} /\ n = 0) \/ at = 2 * n + 3
    BY <1>9, <1>10, <2>2, <2>3
  <2>5. Collected(n)'
    BY <1>1, <1>3, <1>4, <1>10, <2>1, <2>4 DEF Collected
  <2> QED
    BY <1>1, <2>1, <2>5 DEF CIDRsKeepTheirSpelling, Returned
<1>11. CASE /\ ~AtEnd /\ Here.kind = "match"
            /\ IF Here.words # 4 THEN Answer(Failed)
               ELSE found' = Append(found, asciiCIDR(Here.hex)) /\ Advance /\ UNCHANGED filter
  <2>1. Here = Match(shown[n + 1]) /\ at = 2 * n + 4 /\ n + 1 \in 1 .. Len(shown)
    <3>1. lines[at].kind = "match" /\ ~AtEnd
      BY <1>11 DEF Here
    <3> QED
      BY <1>9, <3>1 DEF Here
  <2>2. Here.words = 4 /\ Here.hex = hexCIDR(shown[n + 1].cidr)
    BY <2>1 DEF Match, Line
  <2>3. shown[n + 1].cidr \in Cidr
    BY <1>4, <2>1 DEF Entry, Cidr
  <2>4. asciiCIDR(Here.hex) = shown[n + 1].cidr
    <3>1. shown[n + 1].cidr.ip \in IPv4 /\ shown[n + 1].cidr = Host(shown[n + 1].cidr.ip)
      BY <2>3 DEF Cidr, Host
    <3> QED
      BY <2>2, <3>1, SpellingsAgree
  <2>5. found' = Append(found, shown[n + 1].cidr) /\ at' = at + 1 /\ done' = done
    BY <1>11, <2>2, <2>4 DEF Advance, Continue
  <2>6. /\ found' \in Seq(Cidr) /\ Len(found') = n + 1
        /\ \A k \in 1 .. n : found'[k] = found[k]
        /\ found'[n + 1] = shown[n + 1].cidr
    <3>1. found \in Seq(Cidr) /\ Len(found) = n
      BY <1>3 DEF Collected
    <3> QED
      BY <2>3, <2>5, <3>1, AppendProperties
  <2>7. Collected(n + 1)'
    BY <1>1, <1>3, <1>4, <2>1, <2>5, <2>6 DEF Collected
  <2> QED
    BY <1>1, <1>4, <2>1, <2>5, <2>7 DEF CIDRsKeepTheirSpelling, Returned
<1> QED
  BY <1>8, <1>10, <1>11 DEF GetCIDRs

LEMMA NextCidrs == CidrsInv /\ [ShowNext]_<<callVars, scanVars>> => CidrsInv'
<1> SUFFICES ASSUME CidrsInv, [ShowNext]_<<callVars, scanVars>> PROVE CidrsInv'
  OBVIOUS
<1>1. CASE UNCHANGED <<callVars, scanVars>>
  BY <1>1 DEF callVars, scanVars, CidrsInv, Collected, CIDRsKeepTheirSpelling, Returned
<1>2. CASE CallGetCIDRs
  <2>1. PICK table \in Tables, words \in HeaderSizes :
          Scan("getCIDRs", Nothing, table, ShowFilters(table, words))
    BY <1>2 DEF CallGetCIDRs
  <2>2. ~done' /\ at' = 1 /\ shown' = table /\ lines' = ShowFilters(table, words) /\ found' = <<>>
    BY <2>1 DEF Scan, Call
  <2>3. Collected(0)' /\ 0 \in 0 .. Len(table)
    BY <2>2, TableType, EmptySeq DEF Collected
  <2> QED
    BY <2>2, <2>3 DEF CidrsInv, CIDRsKeepTheirSpelling, Returned
<1>3. CASE CallFind \/ CallNextClassID \/ CallClassExists
  BY <1>3 DEF CallFind, CallNextClassID, CallClassExists, Scan, Call, CidrsInv
<1>4. CASE Find \/ NextClassID \/ ClassExists
  BY <1>4 DEF Find, NextClassID, ClassExists, Scanning, Running, CidrsInv
<1> QED
  BY <1>1, <1>2, <1>3, <1>4, CidrsKeepInv DEF ShowNext

\* For every table getCIDRs returns the addresses of the filters, one for each,
\* spelled as the main loop spells them (tcshaper.go:710-739, utils.go:100-118).
THEOREM SpellingsAreKept == ShowSpec => []CIDRsKeepTheirSpelling
<1>1. CallsInit /\ ScanInit => CidrsInv
  BY DEF CallsInit, CidrsInv
<1>2. CidrsInv => CIDRsKeepTheirSpelling
  BY DEF CidrsInv, CIDRsKeepTheirSpelling, Returned
<1> QED
  BY <1>1, <1>2, NextCidrs, PTL DEF ShowSpec
=============================================================================
