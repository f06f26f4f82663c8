----------------------------- MODULE YamlDocument -----------------------------
(***************************************************************************)
(* The reader of YAML documents in sim/src/workload_loader.cc: tokenize,   *)
(* which makes a token of each line, MiniYamlParser, whose functions call  *)
(* each other for nested blocks, and the access to the nodes it returns.   *)
(* The reader of sim/src/profile_loader.cc is a copy of it, with the       *)
(* difference that ProfileLoader states.                                   *)
(*                                                                         *)
(* A line is what tokenize looks at: its indentation, whether it is blank, *)
(* a comment, an "entry" (key: value), an "item" (- value, or - key: value) *)
(* or something else, and its key and value, trimmed and without quotes.   *)
(* A key or value that a line does not have is None; a value > or | starts *)
(* a block scalar, whose text is of no interest here.  The token of a line *)
(* is the line.                                                            *)
(*                                                                         *)
(* The functions of the parser call each other: here, what a call returns  *)
(* is a recursive function of the call, and parse stands for it in what    *)
(* each of them does.  A call returns what it reads, and the index at      *)
(* which it leaves index_.                                                 *)
(***************************************************************************)
EXTENDS Integers, Sequences, FiniteSets, SequencesExt

CONSTANTS
  None,       \* no key, or no value
  BlockMark,  \* the value that starts a block scalar, and then its text
  Numeral,    \* Numeral[text]: the number a text starts with
  Absent      \* an optional value that is not there

ASSUME NoneAssumption == None \notin Nat

\* An item has a key or a value, since a sole hyphen is none.
LineKind == {"blank", "comment", "other", "entry", "item"}
LineType ==
  {line \in [indent : Nat, kind : LineKind, key : STRING \cup {None},
             value : STRING \cup {None, BlockMark}] :
     line.kind = "item" => line.key # None \/ line.value # None}

------------------------------------------------------------------------------
(* tokenize *)

\* The loop of parse_block_scalar goes on; margin is expected_indent, or None if
\* no block scalar is open.
Absorbs(line, margin) ==
  margin # None /\ (line.kind = "blank" \/ line.indent >= margin)

StartsBlock(line) == line.kind \in {"entry", "item"} /\ line.value = BlockMark

\* The margin that a line leaves
NextMargin(margin, line) ==
  IF Absorbs(line, margin) THEN margin
  ELSE IF StartsBlock(line) THEN line.indent + 2
  ELSE None

\* What tokenize throws for: an odd indentation that is counted, which that of a
\* comment is only by parse_block_scalar, and a line that is no item and has no
\* colon.  A sole hyphen is such a line, as lines are trimmed.
Unreadable(line, margin) ==
  \/ /\ line.indent % 2 # 0
     /\ line.kind # "blank"
     /\ line.kind = "comment" => margin # None
  \/ line.kind = "other" /\ ~Absorbs(line, margin)

\* A line, read in a state that has the margin, the tokens, and whether tokenize
\* has not thrown
Scan(state, line) ==
  IF ~state.readable THEN state
  ELSE [margin |-> NextMargin(state.margin, line),
        tokens |-> IF line.kind \in {"entry", "item"} /\ ~Absorbs(line, state.margin)
                   THEN Append(state.tokens, line) ELSE state.tokens,
        readable |-> ~Unreadable(line, state.margin)]

\* The state after the lines, one after the other
Scanned(lines) ==
  LET scan[n \in 0..Len(lines)] ==
        IF n = 0 THEN [margin |-> None, tokens |-> <<>>, readable |-> TRUE]
        ELSE Scan(scan[n - 1], lines[n])
  IN scan[Len(lines)]

Tokenizable(lines) == Scanned(lines).readable
Tokenize(lines) == Scanned(lines).tokens

------------------------------------------------------------------------------
(* YamlNode *)

Scalar(text) == [kind |-> "scalar", text |-> text]
MapNode(fields) == [kind |-> "map", fields |-> fields]
SequenceNode(items) == [kind |-> "sequence", items |-> items]

NoFields == <<>>

\* What map.emplace and map.insert make of an entry and those after it: a key that
\* is there is left as it is.
Emplaced(key, node, rest) ==
  [k \in {key} \cup DOMAIN rest |-> IF k = key THEN node ELSE rest[k]]

------------------------------------------------------------------------------
(* MiniYamlParser *)

Result(node, next) == [node |-> node, next |-> next]

\* Mutant: a block takes deeper tokens as well.
Continues_deeper(tokens, i, indent, kind) ==
  i <= Len(tokens) /\ tokens[i].indent >= indent /\ tokens[i].kind = kind

\* parse_map and parse_sequence go on with token i.
Continues(tokens, i, indent, kind) ==
  i <= Len(tokens) /\ tokens[i].indent = indent /\ tokens[i].kind = kind

\* The value of the key in token i
KeyValue(tokens, parse, i) ==
  IF tokens[i].value # None THEN Result(Scalar(tokens[i].value), i + 1)
  ELSE parse[<<"value", i + 1, tokens[i].indent + 2>>]

\* The map of the key in token i and the entries after its value that are indented
\* by indent
ParseEntries(tokens, parse, i, indent) ==
  LET first == KeyValue(tokens, parse, i)
      rest == parse[<<"map", first.next, indent>>]
  IN Result(MapNode(Emplaced(tokens[i].key, first.node, rest.node.fields)), rest.next)

\* parse_map(indent) at index_ = i
ParseMap(tokens, parse, i, indent) ==
  IF Continues(tokens, i, indent, "entry") THEN ParseEntries(tokens, parse, i, indent)
  ELSE Result(MapNode(NoFields), i)

\* The node of the item in token i: with a key, a map to which the entries that
\* are indented by two more belong.
ParseItem(tokens, parse, i) ==
  IF tokens[i].key = None THEN Result(Scalar(tokens[i].value), i + 1)
  ELSE ParseEntries(tokens, parse, i, tokens[i].indent + 2)

\* parse_sequence(indent)
ParseSequence(tokens, parse, i, indent) ==
  IF Continues(tokens, i, indent, "item")
  THEN LET item == ParseItem(tokens, parse, i)
           rest == parse[<<"sequence", item.next, indent>>]
       IN Result(SequenceNode(<<item.node>> \o rest.node.items), rest.next)
  ELSE Result(SequenceNode(<<>>), i)

\* parse_value(indent); its last return and its throw are never reached.
ParseValue(tokens, parse, i, indent) ==
  IF i > Len(tokens) \/ tokens[i].indent < indent THEN Result(Scalar(""), i)
  ELSE parse[<<IF tokens[i].kind = "item" THEN "sequence" ELSE "map", i, tokens[i].indent>>]

\* The calls: of which function, at which index from 1, for which indentation
Call == {"map", "sequence", "value"} \X (Nat \ {0}) \X Nat

Parsed(tokens, parse, call) ==
  CASE call[1] = "map" -> ParseMap(tokens, parse, call[2], call[3])
    [] call[1] = "sequence" -> ParseSequence(tokens, parse, call[2], call[3])
    [] call[1] = "value" -> ParseValue(tokens, parse, call[2], call[3])

\* parse_document: the tokens from next on are not looked at.
ParseDocument(tokens) ==
  LET parse[call \in Call] == Parsed(tokens, parse, call)
  IN parse[<<"map", 1, 0>>]

------------------------------------------------------------------------------
(* Access to nodes *)

\* expect_map and get_required
Has(node, key) == node.kind = "map" /\ key \in DOMAIN node.fields
Field(node, key) == node.fields[key]
HasKind(node, key, kind) == Has(node, key) /\ Field(node, key).kind = kind

\* get_optional, of a node of this kind
MayHave(node, key, kind) ==
  node.kind = "map" /\ (key \in DOMAIN node.fields => Field(node, key).kind = kind)

Text(node, key) == Field(node, key).text

\* parse_double, which takes the number a text starts with
HasNumber(node, key) == HasKind(node, key, "scalar") /\ Text(node, key) \in DOMAIN Numeral
MayHaveNumber(node, key) == node.kind = "map" /\ (Has(node, key) => HasNumber(node, key))
Number(node, key) == Numeral[Text(node, key)]

Items(node, key) == IF Has(node, key) THEN Field(node, key).items ELSE <<>>
AllScalars(items) == \A i \in DOMAIN items : items[i].kind = "scalar"
Texts(items) == [i \in DOMAIN items |-> items[i].text]
Optional(node, key) == IF Has(node, key) THEN Text(node, key) ELSE Absent

------------------------------------------------------------------------------
(* The lines of a document that count, without a tokenizer *)

\* The lines from j + 1 to i are blank or indented by more than line j, which starts a
\* block scalar: they are its text.
IsTextOf(lines, j, i) ==
  /\ StartsBlock(lines[j])
  /\ \A k \in (j + 1)..i : lines[k].kind = "blank" \/ lines[k].indent >= lines[j].indent + 2

IsText(lines, i) == \E j \in 1..(i - 1) : IsTextOf(lines, j, i)

\* Line i is such a text or the line right after it.
AfterText(lines, i) == \E j \in 1..(i - 1) : IsTextOf(lines, j, i - 1)

\* Line i makes the document unreadable.
IsFaulty(lines, i) ==
  \/ /\ lines[i].indent % 2 # 0
     /\ lines[i].kind # "blank"
     /\ lines[i].kind = "comment" => AfterText(lines, i)
  \/ lines[i].kind = "other" /\ ~IsText(lines, i)

\* The n-th of a set of numbers
Nth(S, n) == CHOOSE i \in S : Cardinality({j \in S : j <= i}) = n

\* The entries and items that are no text, in their order
Content(lines) ==
  LET count == {i \in DOMAIN lines : lines[i].kind \in {"entry", "item"} /\ ~IsText(lines, i)}
  IN [n \in 1..Cardinality(count) |-> lines[Nth(count, n)]]

------------------------------------------------------------------------------
(* The place of a token, and what a document means, without a parser *)

\* The tokens before token i that are indented by less, or by at most as much
Outer(tokens, i) == {j \in 1..(i - 1) : tokens[j].indent < tokens[i].indent}
OuterOrPeer(tokens, i) == {j \in 1..(i - 1) : tokens[j].indent <= tokens[i].indent}

Latest(S) == CHOOSE i \in S : \A j \in S : j <= i

\* Token i continues the block of the latest token that is indented as it is.
IsPeer(tokens, i) ==
  LET j == Latest(OuterOrPeer(tokens, i)) IN
  tokens[j].indent = tokens[i].indent /\ tokens[j].kind = tokens[i].kind

\* It opens the block that is the value of the key right before it.
OpensValue(tokens, i) ==
  i > 1 /\ tokens[i - 1].indent < tokens[i].indent /\ tokens[i - 1].value = None

\* It is a further entry of the item it is indented in.
ContinuesItem(tokens, i) ==
  /\ Outer(tokens, i) # {}
  /\ LET j == Latest(Outer(tokens, i)) IN
     /\ tokens[j].kind = "item" /\ tokens[j].key # None
     /\ tokens[i].kind = "entry" /\ tokens[i].indent = tokens[j].indent + 2

\* Token i has its place in what the tokens before it have opened.
HasPlace(tokens, i) ==
  IF OuterOrPeer(tokens, i) = {}
  THEN i = 1 /\ tokens[i].kind = "entry" /\ tokens[i].indent = 0
  ELSE IsPeer(tokens, i) \/ OpensValue(tokens, i) \/ ContinuesItem(tokens, i)

FirstMisfit(tokens) ==
  CHOOSE i \in 1..(Len(tokens) + 1) :
    /\ i <= Len(tokens) => ~HasPlace(tokens, i)
    /\ \A j \in 1..(i - 1) : HasPlace(tokens, j)

\* The tokens that are indented in token i, and in none that is indented in it
Children(tokens, i) ==
  {j \in (i + 1)..Len(tokens) :
     /\ tokens[i].indent < tokens[j].indent
     /\ \A k \in (i + 1)..(j - 1) : tokens[k].indent >= tokens[j].indent}

\* Those of the value of the key in token i; the others are further entries of an item.
ValueBlock(tokens, i) ==
  {j \in Children(tokens, i) :
     /\ tokens[i].value = None
     /\ tokens[j].indent = tokens[i + 1].indent /\ tokens[j].kind = tokens[i + 1].kind}

\* The map of the entries S, if value has what their keys stand for: of several with
\* the same key, the first counts.
MapOf(tokens, value, S) ==
  MapNode([key \in {tokens[i].key : i \in S} |->
             value[Min({i \in S : tokens[i].key = key})]])

ItemOf(tokens, value, i) ==
  IF tokens[i].key = None THEN Scalar(tokens[i].value)
  ELSE MapOf(tokens, value, {i} \cup (Children(tokens, i) \ ValueBlock(tokens, i)))

BlockOf(tokens, value, S) ==
  IF \A i \in S : tokens[i].kind = "item"
  THEN SequenceNode([n \in 1..Cardinality(S) |-> ItemOf(tokens, value, Nth(S, n))])
  ELSE MapOf(tokens, value, S)

ValueOf(tokens, value, i) ==
  IF tokens[i].value # None THEN Scalar(tokens[i].value)
  ELSE IF Children(tokens, i) = {} THEN Scalar("")
  ELSE BlockOf(tokens, value, ValueBlock(tokens, i))

\* What tokens that all have a place mean
Meaning(tokens) ==
  LET value[i \in DOMAIN tokens] == ValueOf(tokens, value, i)
  IN MapOf(tokens, value, {i \in DOMAIN tokens : tokens[i].indent = 0})
===============================================================================
