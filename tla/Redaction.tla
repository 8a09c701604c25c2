----------------------------- MODULE Redaction -----------------------------
(***************************************************************************)
(* What happens to one text: the entities found in it (detector.py), the   *)
(* tokens put in their place (tokenizer.py), the check of the result       *)
(* (validator.py, in the order of pipeline.py), the answer of a model to   *)
(* the prompt, and the restoration of that answer (restore.py).            *)
(*                                                                         *)
(* Data abstraction: a text is a sequence of symbols, which are letters    *)
(* (each a piece of text without brackets), single brackets, and whole     *)
(* tokens "[TYPE_N]", be they put there by tokenize() or written by        *)
(* somebody; the number 0 stands for every spelling of a number that is    *)
(* made of digits but has a leading zero.  Letters in brackets never spell *)
(* a token.  A pattern stands for one value its regular expression         *)
(* matches.                                                                *)
(*                                                                         *)
(* Each loop of the code is an action that takes one element, so that what *)
(* holds halfway can be stated: the choice among candidates, the           *)
(* replacement of entities, the substitution of tokens.  Names begin with  *)
(* Text where Workspace, the other half of the facade, has them as well.   *)
(***************************************************************************)
EXTENDS Naturals, FiniteSets, SequencesExt

CONSTANTS
    Letters,      \* the symbols that are neither brackets nor tokens
    LeftBracket, RightBracket,
    Lower,        \* Lower[x]: the letters str.lower() makes of the letter x
    FinalLower,   \* ... at the end of a word, where a capital sigma differs
    Cased,        \* the letters that make a word (str.lower() knows only words
    Ignorable,    \* of letters with case) and those it looks past, like a dot
    Literals,     \* tokens that stand in the text or are added to an answer
    Patterns,     \* sequence of [type, value, secret]: regular expressions
    Dictionary,   \* sequence of [type, value]: entities.yaml
    Priority,     \* Priority[type]; secrets have 0, smaller ones go first
    Configs,      \* routing: records [tokenize, block], two sets of types
    Residuals,    \* values the validator's own patterns match
    MaxLength     \* bound on the length of the text

Types == DOMAIN Priority
Token == [type : Types, num : Nat]
Symbols == Letters \cup {LeftBracket, RightBracket} \cup Literals

(* Neither a pattern nor str.lower() yields the empty text, and the loop over *)
(* the dictionary skips empty entries.                                        *)
ASSUME RedactionAssumption ==
    /\ {Lower, FinalLower} \subseteq [Letters -> Seq(Letters) \ {<<>>}]
    /\ Cased \cup Ignorable \subseteq Letters /\ Cased \cap Ignorable = {}
    /\ Literals \subseteq Token /\ (Letters \cup {LeftBracket, RightBracket}) \cap Token = {}
    /\ LeftBracket \notin Letters /\ RightBracket \notin Letters
    /\ LeftBracket # RightBracket
    /\ Patterns \in Seq([type : Types, value : Seq(Letters) \ {<<>>}, secret : BOOLEAN])
    /\ Dictionary \in Seq([type : Types, value : Seq(Letters) \ {<<>>}])
    /\ Priority \in [Types -> Nat \ {0}]
    /\ \A c \in Configs : c.tokenize \subseteq Types /\ c.block \subseteq Types \ c.tokenize

VARIABLES
    text,        \* the input
    config,      \* the routing configuration
    status,      \* the part of the code to go on with, or the end it came to
    candidates,  \* detector: the candidates not yet sorted out
    entities,    \* detector: the accepted candidates
    masks,       \* tokenizer: the entities still to be replaced
    counters,    \* tokenizer: _counters
    seen,        \* tokenizer: _seen, the token of each value
    prompt,      \* tokenized_text, and prompt.txt once the status is "OK"
    values,      \* the manifest: the value each token stands for
    response,    \* the answer to the prompt
    spans,       \* restore: the positions of tokens still to be substituted
    restored     \* restored_text

input == <<text, config>>
detector == <<candidates, entities>>
tokenizer == <<masks, counters, seen, prompt>>
answer == <<response, spans, restored>>
textVars == <<input, status, detector, tokenizer, values, answer>>

Published == {"OK", "answered", "refused", "substitute", "restored"}
Statuses == {"new", "resolve", "tokenize", "BLOCKED", "PENDING"} \cup Published

-----------------------------------------------------------------------------
(* Sequences.  Positions in a text count from 0 and spans are half-open, as *)
(* in the code.                                                             *)

IsToken(x) == x \in Token
Slice(t, from, to) == SubSeq(t, from + 1, IF to < Len(t) THEN to ELSE Len(t))
Splice(t, from, to, s) == Slice(t, 0, from) \o s \o Slice(t, to, Len(t))

(* Where v occurs in t. *)
Starts(v, t) == {i \in 0 .. Len(t) : i + Len(v) <= Len(t) /\ Slice(t, i, i + Len(v)) = v}

(* Position i comes after a letter of a word and before none. *)
EndsWord(t, i) ==
    /\ \E h \in 1 .. i - 1 : t[h] \in Cased /\ \A k \in h + 1 .. i - 1 : t[k] \in Ignorable
    /\ ~ \E h \in i + 1 .. Len(t) : t[h] \in Cased /\ \A k \in i + 1 .. h - 1 : t[k] \in Ignorable

(* str.lower() of the whole text: what becomes of a letter depends on those   *)
(* around it, so that a part of a text in lower case need not be a part of   *)
(* the text in lower case.                                                   *)
LowerText(t) ==
    FlattenSeq([i \in DOMAIN t |-> IF t[i] \notin Letters THEN <<t[i]>>
                                   ELSE IF EndsWord(t, i) THEN FinalLower[t[i]] ELSE Lower[t[i]]])

-----------------------------------------------------------------------------
(* detect_entities() *)

Candidate(type, from, len, secret, order) ==
    [type |-> type, start |-> from, end |-> from + len, secret |-> secret, order |-> order]

PatternCandidates(t) ==
    UNION {{Candidate(Patterns[n].type, i, Len(Patterns[n].value), Patterns[n].secret, n)
               : i \in Starts(Patterns[n].value, t)} : n \in DOMAIN Patterns}

(* Mutant: the entries are not put into lower case. *)
CaseSensitiveCandidates(t) ==
    UNION {{Candidate(Dictionary[n].type, i, Len(Dictionary[n].value), FALSE, Len(Patterns) + n)
               : i \in Starts(Dictionary[n].value, LowerText(t))}
               : n \in DOMAIN Dictionary}

(* The dictionary is looked for in the lower-case text, and the positions    *)
(* found there are taken for positions of the text itself.                   *)
DictionaryCandidates(t) ==
    UNION {{Candidate(Dictionary[n].type, i, Len(Dictionary[n].value), FALSE, Len(Patterns) + n)
               : i \in Starts(LowerText(Dictionary[n].value), LowerText(t))}
               : n \in DOMAIN Dictionary}

Candidates(t) == PatternCandidates(t) \cup DictionaryCandidates(t)

Rank(c) == IF c.secret THEN 0 ELSE Priority[c.type]
Length(c) == c.end - c.start

(* Mutant: the longer candidate wins, and only then the more important one. *)
LongerFirst(c, d) ==
    \/ Length(c) > Length(d)
    \/ Length(c) = Length(d) /\ Rank(c) < Rank(d)
    \/ Length(c) = Length(d) /\ Rank(c) = Rank(d) /\ c.start < d.start
    \/ Length(c) = Length(d) /\ Rank(c) = Rank(d) /\ c.start = d.start /\ c.order < d.order

(* The sort key (priority, -length, start) of a stable sort. *)
Before(c, d) ==
    \/ Rank(c) < Rank(d)
    \/ Rank(c) = Rank(d) /\ Length(c) > Length(d)
    \/ Rank(c) = Rank(d) /\ Length(c) = Length(d) /\ c.start < d.start
    \/ Rank(c) = Rank(d) /\ Length(c) = Length(d) /\ c.start = d.start /\ c.order < d.order

(* Mutant: candidates that merely touch are taken to overlap. *)
Touch(c, d) == c.end >= d.start /\ d.end >= c.start

Overlap(c, d) == c.end > d.start /\ d.end > c.start

-----------------------------------------------------------------------------
(* tokenize() *)

(* Mutant: the counter is not used. *)
ReusedNumber(type) == [type |-> type, num |-> 1]

(* PerDocumentStrategy: a counter for each type. *)
NextToken(type) == [type |-> type, num |-> counters[type] + 1]

(* The token of a value is the one it got first, of whatever type. *)
Assign(type, value) ==
    IF value \in DOMAIN seen
    THEN UNCHANGED <<counters, seen>>
    ELSE /\ counters' = [counters EXCEPT ![type] = @ + 1]
         /\ seen' = [v \in DOMAIN seen \cup {value} |->
                        IF v = value THEN NextToken(type) ELSE seen[v]]

(* entities_to_tokenize *)
Chosen == {e \in entities : e.type \in config.tokenize}

(* Only positions found in a longer lower-case text lie past the end of the   *)
(* text.  A replacement there cuts into the spelling of a token put there     *)
(* before it: what is left on either side is nothing, a token or part of one. *)
PastEnd(e) == e.end > Len(text) /\ masks # Chosen
Scraps(token) ==
    {<<>>, <<token>>} \cup {<<LeftBracket, x>> : x \in Letters}
                     \cup {<<x, RightBracket>> : x \in Letters}

Put(token, e) ==
    IF PastEnd(e)
    THEN \E before \in (IF e.start > Len(text) THEN Scraps(token) ELSE {<<>>}) :
         \E after \in Scraps(token) :
             prompt' = Slice(text, 0, e.start) \o before \o <<token>> \o after
    ELSE prompt' = Splice(prompt, e.start, e.end, <<token>>)

(* build_manifest(), and value_map of restore_text().  The code finds a value *)
(* by its fingerprint, 48 bits of a hash, which is taken to be injective.    *)
Manifest ==
    [k \in {seen[v] : v \in DOMAIN seen} |-> CHOOSE v \in DOMAIN seen : seen[v] = k]

-----------------------------------------------------------------------------
(* validate() *)

(* The brackets of a text, those of the tokens included. *)
Brackets(p) == FlattenSeq([i \in DOMAIN p |-> IF IsToken(p[i]) THEN <<LeftBracket, p[i], RightBracket>>
                                                               ELSE <<p[i]>>])

(* _RE_NESTED_BRACKET: "[[" and a later "]", or "]]" after a "[" that no "]" *)
(* has closed.                                                               *)
Nested(p) ==
    LET br == Brackets(p) IN
    \/ \E i, j \in DOMAIN br :
          i + 1 < j /\ br[i] = LeftBracket /\ br[i + 1] = LeftBracket /\ br[j] = RightBracket
    \/ \E i, j \in DOMAIN br :
          /\ i < j /\ j < Len(br)
          /\ br[i] = LeftBracket /\ br[j] = RightBracket /\ br[j + 1] = RightBracket
          /\ \A h \in i + 1 .. j - 1 : br[h] # RightBracket

Count(p, x, n) == Cardinality({i \in 1 .. n : p[i] = x})

(* A bracket too many, or one that is not closed. *)
Unbalanced(p) ==
    \/ \E n \in DOMAIN p : Count(p, RightBracket, n) > Count(p, LeftBracket, n)
    \/ Count(p, LeftBracket, Len(p)) > Count(p, RightBracket, Len(p))

(* The bracketed letters at positions i to j. *)
Group(p, i, j) ==
    i < j /\ p[i] = LeftBracket /\ p[j] = RightBracket /\ \A h \in i + 1 .. j - 1 : p[h] \in Letters

(* Mutant: what is bracketed and no token is let through. *)
ValidateTokensOnly(p) ==
    IF (\E v \in Residuals : Starts(v, p) # {}) \/ Nested(p) \/ Unbalanced(p)
    THEN "BLOCKED" ELSE "OK"

(* Every token has a type of EntityType, so that what is unknown is a group. *)
Validate(p) ==
    IF (\E v \in Residuals : Starts(v, p) # {}) \/ Nested(p) \/ Unbalanced(p)
    THEN "BLOCKED"
    ELSE IF \E i, j \in DOMAIN p : Group(p, i, j) THEN "PENDING"
    ELSE "OK"

-----------------------------------------------------------------------------
(* restore_text() *)

(* Candidates of restore: tokens, and one letter or more in brackets. *)
Malformed(r) ==
    \/ \E i \in DOMAIN r : IsToken(r[i]) /\ r[i].num = 0
    \/ \E i, j \in DOMAIN r : i + 1 < j /\ Group(r, i, j)

Unknown(r, map) == \E i \in DOMAIN r : IsToken(r[i]) /\ r[i].num > 0 /\ r[i] \notin DOMAIN map

(* The positions of the tokens of the manifest. *)
KnownTokens(r, map) == {i \in DOMAIN r : r[i] \in DOMAIN map}

-----------------------------------------------------------------------------
TextInit ==
    /\ text \in BoundedSeq(Symbols, MaxLength)
    /\ config \in Configs
    /\ status = "new"
    /\ candidates = {} /\ entities = {} /\ masks = {} /\ spans = {}
    /\ counters = [t \in Types |-> 0]
    /\ seen = <<>> /\ prompt = <<>> /\ values = <<>> /\ response = <<>> /\ restored = <<>>

(* prepare_pipeline(), from its first test to the list of candidates. *)
Detect ==
    /\ status = "new"
    /\ IF text = <<>> THEN status' = "BLOCKED" /\ UNCHANGED candidates
       ELSE status' = "resolve" /\ candidates' = Candidates(text)
    /\ UNCHANGED <<input, entities, tokenizer, values, answer>>

(* _resolve_overlaps(): the next candidate of the sorted list, accepted      *)
(* unless it overlaps one that was accepted before.                          *)
Resolve ==
    /\ status = "resolve"
    /\ \E c \in candidates :
          /\ \A d \in candidates : ~ Before(d, c)
          /\ candidates' = candidates \ {c}
          /\ entities' = IF \E a \in entities : Overlap(a, c) THEN entities
                         ELSE entities \cup {c}
    /\ UNCHANGED <<input, status, tokenizer, values, answer>>

(* A secret, or an entity of a type blocked unconditionally. *)
Blocked == \E e \in entities : e.secret \/ e.type \in config.block

(* The two hard blocks, and the choice of what is replaced. *)
Select ==
    /\ status = "resolve" /\ candidates = {}
    /\ IF Blocked THEN status' = "BLOCKED" /\ UNCHANGED <<masks, prompt>>
       ELSE status' = "tokenize" /\ masks' = Chosen /\ prompt' = text
    /\ UNCHANGED <<input, detector, counters, seen, values, answer>>

(* tokenize(): its two loops go through the entities in the same order, the  *)
(* last of the text first, and are one here.  Entities do not overlap        *)
(* (ResolvedByPolicy), so that its own test for that never applies.          *)
Replace ==
    /\ status = "tokenize"
    /\ \E e \in masks :
          /\ \A d \in masks : d.start <= e.start
          /\ Assign(e.type, Slice(text, e.start, e.end))
          /\ Put(seen'[Slice(text, e.start, e.end)], e)
          /\ masks' = masks \ {e}
    /\ UNCHANGED <<input, status, detector, values, answer>>

(* The verdict, and the end of prepare_pipeline(): nothing is published       *)
(* unless it is OK.                                                          *)
Conclude ==
    /\ status = "tokenize" /\ masks = {}
    /\ status' = Validate(prompt)
    /\ values' = IF status' = "OK" THEN Manifest ELSE <<>>
    /\ UNCHANGED <<input, detector, tokenizer, answer>>

(* The model repeats the prompt, leaves out a symbol of it or adds one. *)
Answer ==
    /\ status = "OK"
    /\ \/ response' = prompt
       \/ \E i \in DOMAIN prompt : response' = RemoveAt(prompt, i)
       \/ \E i \in 0 .. Len(prompt) : \E x \in Symbols :
              response' = Splice(prompt, i, i, <<x>>)
    /\ status' = "answered"
    /\ UNCHANGED <<input, detector, tokenizer, values, spans, restored>>

(* restore_text() up to the substitution. *)
Classify(strict) ==
    /\ status = "answered"
    /\ IF strict /\ (Unknown(response, values) \/ Malformed(response))
       THEN status' = "refused" /\ UNCHANGED <<spans, restored>>
       ELSE /\ status' = "substitute"
            /\ spans' = KnownTokens(response, values) /\ restored' = response
    /\ UNCHANGED <<input, detector, tokenizer, values, response>>

(* _substitute(): the last token first. *)
Substitute ==
    /\ status = "substitute"
    /\ \E i \in spans :
          /\ \A j \in spans : j <= i
          /\ restored' = Splice(restored, i - 1, i, values[response[i]])
          /\ spans' = spans \ {i}
    /\ UNCHANGED <<input, status, detector, tokenizer, values, response>>

Return ==
    /\ status = "substitute" /\ spans = {}
    /\ status' = "restored"
    /\ UNCHANGED <<input, detector, tokenizer, values, answer>>

TextNext ==
    \/ Detect \/ Resolve \/ Select \/ Replace \/ Conclude
    \/ Answer \/ (\E strict \in BOOLEAN : Classify(strict)) \/ Substitute \/ Return

TextSpec == TextInit /\ [][TextNext]_textVars

-----------------------------------------------------------------------------
(* Properties *)

(* Texts are over symbols and tokens, what is accepted and replaced are       *)
(* candidates of the text, and the manifest maps tokens to parts of it.       *)
TextTypeOK ==
    /\ text \in Seq(Symbols) /\ config \in Configs /\ status \in Statuses
    /\ candidates \subseteq Candidates(text) /\ entities \subseteq Candidates(text)
    /\ masks \subseteq Chosen
    /\ counters \in [Types -> Nat]
    /\ DOMAIN seen \subseteq Seq(Symbols) /\ seen \in [DOMAIN seen -> Token]
    /\ DOMAIN values \subseteq Token /\ values \in [DOMAIN values -> Seq(Symbols)]
    /\ {prompt, response, restored} \subseteq Seq(Symbols \cup Token)
    /\ spans \subseteq DOMAIN response

(* The repeated prompt is never refused, and its restoration is the text to  *)
(* the letter: no span is off, no two values share a token, and the two      *)
(* grammars of a token, the validator's and restore's, agree on all that     *)
(* passes.  A text that brings tokens of its own is exempt: they may name a  *)
(* value of the manifest.                                                    *)
RoundTrip ==
    status \in {"refused", "restored"} /\ response = prompt
        /\ ~ (\E i \in DOMAIN text : IsToken(text[i]))
    => status = "restored" /\ restored = text

(* ... unless two entities lie past the end of the text, by positions of a   *)
(* longer lower-case text, and one cuts the other's token in two.            *)
RoundTripWithinText ==
    (\A d, e \in Chosen : d.end > Len(text) => e.start <= d.start) => RoundTrip

(* The answer with the tokens of the manifest exchanged, each one once. *)
Exchanged(r, map) ==
    FlattenSeq([i \in DOMAIN r |-> IF r[i] \in DOMAIN map THEN map[r[i]] ELSE <<r[i]>>])

(* Within a document a value has one token and a token one value             *)
(* (docs/token-format.md:73-76): each value that was masked is in the manifest, *)
(* once, whatever tokens the text had already; and what is restored is the   *)
(* answer with these tokens exchanged, once.                                 *)
TokensNameValues ==
    /\ status \in Published =>
          {values[k] : k \in DOMAIN values} = {Slice(text, e.start, e.end) : e \in Chosen}
    /\ \A k, l \in DOMAIN values : values[k] = values[l] => k = l
    /\ status = "restored" => restored = Exchanged(response, values)

(* The policy of docs/detection.md:86 for entities that overlap: none of     *)
(* those kept do, and each one dropped overlaps one that was kept and is     *)
(* more important, or as important and longer, or as long and earlier.       *)
Prevails(c, d) ==
    \/ Rank(c) < Rank(d)
    \/ Rank(c) = Rank(d) /\ Length(c) > Length(d)
    \/ Rank(c) = Rank(d) /\ Length(c) = Length(d) /\ c.start <= d.start

ResolvedByPolicy ==
    status \notin {"new", "resolve"} =>
        /\ \A c, d \in entities : c # d => c.end <= d.start \/ d.end <= c.start
        /\ \A c \in Candidates(text) \ entities : \E e \in entities :
              e.end > c.start /\ c.end > e.start /\ Prevails(e, c)

(* The policy is deterministic (detector.py:329), equal matches included: the *)
(* entities kept are the only set of candidates without overlaps such that    *)
(* each one left out overlaps one in it that comes before in the order.       *)
Settled(E) ==
    /\ \A c, d \in E : c # d => ~ Overlap(c, d)
    /\ \A c \in Candidates(text) \ E : \E e \in E : Overlap(e, c) /\ Before(e, c)

DecidedByPolicy ==
    status \notin {"new", "resolve"} =>
        \A E \in SUBSET Candidates(text) : Settled(E) <=> E = entities

(* A text with a secret goes nowhere, whatever overlaps the secret and       *)
(* whatever the configuration tokenises (ADR-11).                            *)
SecretsBlock ==
    status \notin {"new", "resolve", "BLOCKED"} =>
        \A n \in DOMAIN Patterns : Patterns[n].secret => Starts(Patterns[n].value, text) = {}

(* Entries of the dictionary, in upper case or lower, that are in the text. *)
Occurs(v, t) == \E i \in 0 .. Len(t) : \E j \in i .. Len(t) :
                    LowerText(Slice(t, i, j)) = LowerText(v)

(* When every type is tokenised, no entry of the dictionary is left in the   *)
(* prompt (docs/detection.md:55).                                            *)
NamesAreMasked ==
    status = "OK" /\ config.tokenize = Types =>
        \A n \in DOMAIN Dictionary : ~ Occurs(Dictionary[n].value, prompt)

(* ... unless a letter of the text is longer in lower case than it is here,  *)
(* or has another lower case at the end of a word than elsewhere.            *)
NamesAreMaskedAtLength ==
    (\A i \in DOMAIN text : text[i] \in Letters =>
        Len(Lower[text[i]]) = 1 /\ FinalLower[text[i]] = Lower[text[i]])
        => NamesAreMasked
=============================================================================
