------------------------------- MODULE TcShow -------------------------------
(***************************************************************************)
(* The functions of pkg/flow/tcshaper.go that read the text of             *)
(* `tc filter show` and `tc class show` line by line.  A line is a record  *)
(* of those of its words that matter, and of their number.                 *)
(***************************************************************************)
EXTENDS CidrCodec, HelperCalls

CONSTANTS
  Cidrs,       \* what findCIDRClass may be asked for
  Tables,      \* the filters an ifb may have, in the order of their handles
  ClassLists,  \* the classes an ifb may have, in the order they are shown
  HeaderSizes, \* the numbers of words that tc may show for a filter
  LastClass    \* the highest class id: 9999 in nextClassID

ASSUME LastClassAssumption == LastClass \in Nat

\* Filters are made of IPv4 addresses; the agent asks for whatever address a pod
\* reports, or for none.
ASSUME ShownAssumption ==
  /\ Cidrs \subseteq [ip : Seq(Octet), bits : {32}]
  /\ Tables \subseteq Seq([cidr : [ip : [1 .. 4 -> Octet], bits : {32}], flowid : Nat, handle : Nat])
  /\ \A table \in Tables : \A j, k \in 1 .. Len(table) : j <= k => table[j].handle <= table[k].handle
  /\ ClassLists \subseteq Seq([id : Nat, words : Nat])
  /\ HeaderSizes \subseteq Nat

VARIABLES
  shown,    \* the table behind the text
  lines,    \* the text
  at,       \* the line the scanner returns next
  filter,   \* the last line that starts with "filter"
  found     \* what the call has collected so far

scanVars == <<shown, lines, at, filter, found>>

Line(kind, words, class, handle, hex) ==
  [kind |-> kind, words |-> words, class |-> class, handle |-> handle, hex |-> hex]

NoHex  == [ip |-> <<>>, mask |-> <<>>]
NoLine == Line("none", 1, 0, 0, NoHex)

\* The kernel shows the u32 classifier and its hash table, then two lines for
\* each filter.  `words` is 19 unless tc says more of a filter than it used to.
ShowFilters(table, words) ==
  IF table = <<>> THEN <<>> ELSE
  <<Line("filter", 8, 0, 0, NoHex), Line("filter", 13, 0, 0, NoHex)>> \o
  [k \in 1 .. 2 * Len(table) |->
     LET f == table[(k + 1) \div 2]
     IN  IF k % 2 = 1 THEN Line("filter", words, f.flowid, f.handle, NoHex)
                      ELSE Line("match", 4, 0, 0, hexCIDR(f.cidr))]

\* One line for each class.
ShowClasses(list) ==
  [k \in 1 .. Len(list) |-> Line("class", list[k].words, list[k].id, 0, NoHex)]

\* What a call returns: an error, or nothing, or what was found.
Failed      == [err |-> TRUE, found |-> FALSE, value |-> Nothing]
Absent      == [err |-> FALSE, found |-> FALSE, value |-> Nothing]
Result(val) == [err |-> FALSE, found |-> TRUE, value |-> val]

ScanInit ==
  shown = <<>> /\ lines = <<>> /\ at = 1 /\ filter = NoLine /\ found = <<>>

-----------------------------------------------------------------------------

Scan(name, given, table, text) ==
  /\ Call(name, given)
  /\ shown' = table /\ lines' = text /\ at' = 1 /\ filter' = NoLine /\ found' = <<>>

Scanning(name) == Running(name) /\ UNCHANGED <<shown, lines>>

Advance   == at' = at + 1 /\ Continue
Answer(r) == Return(r) /\ UNCHANGED <<at, filter, found>>

AtEnd == at > Len(lines)
Here  == lines[at]

CallFind ==
  \E c \in Cidrs, table \in Tables, words \in HeaderSizes :
    Scan("findCIDRClass", c, table, ShowFilters(table, words))

\* A bug one could write: the first of the header lines is kept.
RememberFirst(line) == filter' = IF filter = NoLine THEN line ELSE filter

Remember(line) == filter' = line

\* The text of the match is looked for in the lines that do not start with
\* "filter"; class and handle come from the header that was seen last.
Find ==
  /\ Scanning("findCIDRClass")
  /\ \/ ~Parses(arg) /\ Answer(Failed)
     \/ Parses(arg) /\ AtEnd /\ Answer(Absent)
     \/ /\ Parses(arg) /\ ~AtEnd /\ Here.kind = "filter"
        /\ Remember(Here) /\ Advance /\ UNCHANGED found
     \/ /\ Parses(arg) /\ ~AtEnd /\ Here.kind # "filter"
        /\ IF Here.hex # hexCIDR(arg) THEN Advance /\ UNCHANGED <<filter, found>>
           ELSE IF filter.words # 19 THEN Answer(Failed)
           ELSE Answer(Result([flowid |-> filter.class, handle |-> filter.handle]))

CallGetCIDRs ==
  \E table \in Tables, words \in HeaderSizes :
    Scan("getCIDRs", Nothing, table, ShowFilters(table, words))

GetCIDRs ==
  /\ Scanning("getCIDRs")
  /\ \/ AtEnd /\ Answer(Result(found))
     \/ ~AtEnd /\ Here.kind # "match" /\ Advance /\ UNCHANGED <<filter, found>>
     \/ /\ ~AtEnd /\ Here.kind = "match"
        /\ IF Here.words # 4 THEN Answer(Failed)
           ELSE found' = Append(found, asciiCIDR(Here.hex)) /\ Advance /\ UNCHANGED filter

CallNextClassID ==
  \E list \in ClassLists : Scan("nextClassID", Nothing, list, ShowClasses(list))

\* A bug one could write: the last id is never given out.
FreeButLast == (1 .. LastClass - 1) \ {found[k] : k \in 1 .. Len(found)}

\* The ids that are not among the collected ones.
Free == (1 .. LastClass) \ {found[k] : k \in 1 .. Len(found)}

\* A class has 16 words if it has a leaf queue, 14 if it has none.
NextClassID ==
  /\ Scanning("nextClassID")
  /\ \/ /\ ~AtEnd
        /\ IF Here.words \in {14, 16}
           THEN found' = Append(found, Here.class) /\ Advance /\ UNCHANGED filter
           ELSE Answer(Failed)
     \/ AtEnd /\ Free = {} /\ Answer(Failed)
     \/ \E n \in Free : AtEnd /\ (\A m \in Free : n <= m) /\ Answer(Result(n))

CallClassExists ==
  \E c \in 1 .. LastClass, list \in ClassLists :
    Scan("classExists", c, list, ShowClasses(list))

\* A bug one could write: the search ends with the first line.
ClassExistsFirst ==
  /\ Scanning("classExists")
  /\ Answer(IF ~AtEnd /\ Here.class = arg THEN Result(arg) ELSE Absent)

ClassExists ==
  /\ Scanning("classExists")
  /\ \/ AtEnd /\ Answer(Absent)
     \/ ~AtEnd /\ Here.class = arg /\ Answer(Result(arg))
     \/ ~AtEnd /\ Here.class # arg /\ Advance /\ UNCHANGED <<filter, found>>

-----------------------------------------------------------------------------

ShowNext ==
  \/ done /\ (CallFind \/ CallGetCIDRs \/ CallNextClassID \/ CallClassExists)
  \/ Find \/ GetCIDRs \/ NextClassID \/ ClassExists

ShowSpec == CallsInit /\ ScanInit /\ [][ShowNext]_<<callVars, scanVars>>
=============================================================================
