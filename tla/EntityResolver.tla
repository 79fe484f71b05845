---------------------------- MODULE EntityResolver ----------------------------
(***************************************************************************)
(* EntityResolver.resolve (entity_resolver.py): which candidates and       *)
(* parties a sentence names.  A text is a sequence of tokens (words and    *)
(* marks), so that an occurrence of tokens is one between word boundaries. *)
(* spaCy is external: Entities gives the spans it tags.                    *)
(***************************************************************************)
EXTENDS Collections

CONSTANTS
  Normal,     \* token -> the tokens normalize makes of it
  Letters,    \* normalised token -> how long it is
  Trigger,    \* the token that stands for "candidato de" and its variants
  Entities,   \* text -> sequence of [from, to, kind], <<>> without spaCy
  Near,       \* pairs of token sequences at an edit distance of one
  Short       \* token sequences too short for a fuzzy match

Text == Seq(DOMAIN Normal)
Normalised == Seq(DOMAIN Letters)

ASSUME ResolverAssumption ==
  /\ Normal \in [DOMAIN Normal -> Normalised]
  /\ Letters \in [DOMAIN Letters -> Nat]
  /\ \A t \in DOMAIN Entities :
       t \in Text /\ Entities[t] \in Seq([from : Nat, to : Nat, kind : {"candidate", "party"}])

Normalize(text) == Seqs!FoldLeft(LAMBDA norm, token : norm \o Normal[token], <<>>, text)

GazetteerEntry(surface, kind, id) == [surface |-> Normalize(surface), kind |-> kind, id |-> id]

(* The characters of a surface, with those between its tokens.             *)
Length(surface) == SumOver([k \in DOMAIN surface |-> Letters[surface[k]] + 1], DOMAIN surface)

(* The order of __init__: the longest surface first, as they came if equal.*)
Ahead(g, i, k) ==
  \/ Length(g[i].surface) > Length(g[k].surface)
  \/ Length(g[i].surface) = Length(g[k].surface) /\ i < k
Foremost(g, indices) == Nth(indices, 1, LAMBDA i, k : Ahead(g, i, k))

OccursAt(s, text, i) ==
  i + Len(s) - 1 <= Len(text) /\ \A k \in DOMAIN s : text[i + k - 1] = s[k]

(* An occurrence is a pair: an entry and where it begins.                  *)
Occurrences(norm, g) ==
  {o \in (DOMAIN g) \X (DOMAIN norm) : OccursAt(g[o[1]].surface, norm, o[2])}
Span(g, o) == o[2]..(o[2] + Len(g[o[1]].surface) - 1)
Covered(g, found) == UNION {Span(g, o) : o \in found}

(* Entry by entry, left to right; what an earlier one has taken is gone.   *)
Scanned(norm, g) ==
  [n \in 1..Cardinality(Occurrences(norm, g)) |->
     Nth(Occurrences(norm, g), n, LAMBDA o, x : Ahead(g, o[1], x[1]) \/ (o[1] = x[1] /\ o[2] < x[2]))]
Take(g, found, o) == IF Span(g, o) \cap Covered(g, found) = {} THEN found \cup {o} ELSE found
Taken(norm, g) == Seqs!FoldLeft(LAMBDA found, o : Take(g, found, o), {}, Scanned(norm, g))

Mention(span, e) == [span |-> span, kind |-> e.kind, id |-> e.id]
Consumed(mentions) == UNION {m.span : m \in mentions}

GazetteerPass(norm, g) == {Mention(Span(g, o), g[o[1]]) : o \in Taken(norm, g)}

(* "candidato de <party>" names the party's candidate of the cycle.  The   *)
(* phrase is found in the text, the party in the normalised text, at the   *)
(* same index; the first party that fits decides, with a candidate or not. *)
Fitting(norm, g, i) == {k \in DOMAIN g : g[k].kind = "party" /\ OccursAt(g[k].surface, norm, i + 1)}
PartyAt(norm, g, i) == g[Foremost(g, Fitting(norm, g, i))]

TriggerPass(text, norm, g, cycle) ==
  {[span |-> i..(i + Len(PartyAt(norm, g, i).surface)), kind |-> "candidate", id |-> cycle[PartyAt(norm, g, i).id]] :
     i \in {j \in DOMAIN text : /\ text[j] = Trigger /\ Fitting(norm, g, j) # {}
                                /\ PartyAt(norm, g, j).id \in DOMAIN cycle}}

(* What spaCy tags and no entry has taken is matched within one edit, an   *)
(* exact match first.                                                      *)
Matches(g, kind, name) ==
  LET exact == {k \in DOMAIN g : g[k].kind = kind /\ g[k].surface = name}
      near == {k \in DOMAIN g : g[k].kind = kind /\ <<name, g[k].surface>> \in Near}
  IN IF name \in Short THEN {} ELSE IF exact # {} THEN exact ELSE near

Tag(text, g, mentions, ent) ==
  LET matches == Matches(g, ent.kind, Normalize(SubSeq(text, ent.from, ent.to)))
  IN IF (ent.from..ent.to) \cap Consumed(mentions) = {} /\ matches # {}
     THEN mentions \cup {Mention(ent.from..ent.to, g[Foremost(g, matches)])}
     ELSE mentions

NerPass(text, g, found) ==
  Seqs!FoldLeft(LAMBDA mentions, ent : Tag(text, g, mentions, ent), found, Entities[text])

(* The mentions of a sentence; only their subjects matter to the scorer,   *)
(* so duplicates and confidences are left out.                             *)
Resolve(text, g, cycle) ==
  LET norm == Normalize(text)
  IN NerPass(text, g, GazetteerPass(norm, g)) \cup TriggerPass(text, norm, g, cycle)

Subjects(text, g, cycle) == {[kind |-> m.kind, id |-> m.id] : m \in Resolve(text, g, cycle)}
===============================================================================
