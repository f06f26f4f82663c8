------------------------------- MODULE Outlines -------------------------------
(***************************************************************************)
(* Documents as the example files are written, for the instances of        *)
(* PlacementBenchmark: the lines of an outline, and the node it stands     *)
(* for.                                                                    *)
(***************************************************************************)
EXTENDS YamlDocument

\* An outline is a document without its layout: a scalar, a sequence, or a
\* mapping whose entries are in the order of the lines.
Mapping(entries) == [kind |-> "map", entries |-> entries]

Line(indent, kind, key, value) ==
  [indent |-> indent, kind |-> kind, key |-> key, value |-> value]

\* The value on the line of its key
Inline(outline) == IF outline.kind = "scalar" THEN outline.text ELSE None

RECURSIVE NodeOf(_), Block(_, _, _), Entries(_, _, _)

\* The node that an outline stands for
NodeOf(outline) ==
  CASE outline.kind = "scalar" -> outline
    [] outline.kind = "sequence" ->
         SequenceNode([i \in DOMAIN outline.items |-> NodeOf(outline.items[i])])
    [] outline.kind = "map" ->
         MapNode([key \in {outline.entries[i].key : i \in DOMAIN outline.entries} |->
           NodeOf((CHOOSE e \in ToSet(outline.entries) : e.key = key).node)])

\* The lines of the entries, each at the given indentation; a block is indented by
\* step more than its key.
Entries(entries, indent, step) ==
  FlattenSeq([i \in DOMAIN entries |->
    <<Line(indent, "entry", entries[i].key, Inline(entries[i].node))>>
      \o Block(entries[i].node, indent + step, step)])

\* An item is a scalar or a mapping, whose first entry is on the line of the item.
Item(outline, indent, step) ==
  IF outline.kind = "scalar" THEN <<Line(indent, "item", None, outline.text)>>
  ELSE LET first == Head(outline.entries) IN
       <<Line(indent, "item", first.key, Inline(first.node))>>
         \o Block(first.node, indent + 2 + step, step)
         \o Entries(Tail(outline.entries), indent + 2, step)

\* The lines that follow the line of a key
Block(outline, indent, step) ==
  CASE outline.kind = "scalar" -> <<>>
    [] outline.kind = "sequence" ->
         FlattenSeq([i \in DOMAIN outline.items |->
           Item(outline.items[i], indent, step)])
    [] outline.kind = "map" -> Entries(outline.entries, indent, step)

Written(outline, step) == Entries(outline.entries, 0, step)
===============================================================================
