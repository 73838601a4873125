---------------------------- MODULE Negotiation -----------------------------
(***************************************************************************)
(* The media types of requests and answers: middleware/accept.go and       *)
(* middleware/content_type.go.                                             *)
(*                                                                         *)
(* A media range is [type, sub, suffix, q]: "*" is the wildcard, suffix    *)
(* the part after "+", q the text of the weight.  An item that is no media *)
(* range has type "".                                                      *)
(***************************************************************************)
EXTENDS Integers, Sequences, SequencesExt

Json == [type |-> "application", sub |-> "json", suffix |-> ""]
Problem == [type |-> "application", sub |-> "problem", suffix |-> "json"]
Csv == [type |-> "text", sub |-> "csv", suffix |-> ""]
Xlsx == [type |-> "application", sub |-> "sheet", suffix |-> ""]
Form == [type |-> "multipart", sub |-> "form-data", suffix |-> ""]

-----------------------------------------------------------------------------
(***************************************************************************)
(* Accept.                                                                 *)
(***************************************************************************)
\* The weight ParseFloat makes of "nan": neither bound refuses it.
NotANumber == -1

\* The weight in tenths; one that cannot be read or is out of bounds is 0.
Quality(range) == CASE range.q \in {"absent", "1"} -> 10
                    [] range.q = "0.5"             -> 5
                    [] range.q = "nan"             -> NotANumber
                    [] OTHER                       -> 0

\* What is not a number is greater than nothing, and nothing is greater than it.
Exceeds(quality, other) ==
  quality # NotANumber /\ other # NotANumber /\ quality > other

Named(range, media) ==
  range.type = media.type /\ range.sub = media.sub /\ range.suffix = media.suffix

Anything == [type |-> "*", sub |-> "*", suffix |-> ""]

Specificity(range) ==
  CASE Named(range, Anything)                  -> 0
    [] range.sub = "*" /\ range.suffix = ""    -> 1
    [] range.sub = "*" /\ range.suffix # ""    -> 2
    [] OTHER                                   -> 3

\* application/*+json is a range of everything with that suffix.
Matches(range, media) ==
  \/ Named(range, Anything) \/ Named(range, media)
  \/ /\ range.type = media.type /\ range.sub = "*"
     /\ range.suffix \in {"", media.suffix}

\* Faulty variant: a later range counts whenever it is not less specific.
BetterIfLater(range, media, best) ==
  Matches(range, media) /\ Specificity(range) >= best.specificity

\* Among the ranges that match, the first of the most specific ones counts, or
\* one as specific with a greater weight.
Better(range, media, best) ==
  /\ Matches(range, media)
  /\ \/ Specificity(range) > best.specificity
     \/ Specificity(range) = best.specificity /\ Exceeds(Quality(range), best.quality)

MediaTypeAccepted(media, ranges) ==
  LET best[i \in 0..Len(ranges)] ==
        IF i = 0 THEN [specificity |-> -1, quality |-> 0]
        ELSE IF Better(ranges[i], media, best[i - 1])
        THEN [specificity |-> Specificity(ranges[i]), quality |-> Quality(ranges[i])]
        ELSE best[i - 1]
      last == best[Len(ranges)]
  IN  last.specificity >= 0 /\ Exceeds(last.quality, 0)

\* No header at all is no restriction; a header of rubbish is, since an item that
\* is no media range matches nothing.
AcceptsAny(header, offered) ==
  header = <<>> \/ \E media \in offered : MediaTypeAccepted(media, header)

\* What the weights of a header mean: a type is wanted when no range that matches
\* it is more specific than one that wants it.
Wants(header, offered) ==
  LET ranges == {item \in ToSet(header) : item.type # ""}
  IN  \/ header = <<>>
      \/ \E media \in offered : \E range \in ranges :
           /\ Matches(range, media) /\ Exceeds(Quality(range), 0)
           /\ \A other \in ranges :
                Matches(other, media) => Specificity(other) <= Specificity(range)

\* The one case in which the order counts: the first of the most specific ranges
\* that match the type has a weight that is no number, and no later one replaces it.
Shadowed(header, media) ==
  \E i \in DOMAIN header :
    /\ Matches(header[i], media) /\ Quality(header[i]) = NotANumber
    /\ \A k \in DOMAIN header : Matches(header[k], media) =>
         \/ Specificity(header[k]) < Specificity(header[i])
         \/ Specificity(header[k]) = Specificity(header[i]) /\ i <= k

\* The export is offered in the format the query names; an unknown one is
\* refused later, by the handler.
Formats(format) == CASE format \in {"", "csv"} -> {Csv}
                     [] format = "xlsx"        -> {Xlsx}
                     [] OTHER                  -> {Csv, Xlsx}

-----------------------------------------------------------------------------
(***************************************************************************)
(* Content-Type.                                                           *)
(***************************************************************************)
\* header is the sequence of values; boundary tells whether one is given.
ContentTypeAllowed(header, allowed) ==
  /\ Len(header) = 1
  /\ LET media == header[1]
     IN  /\ \/ Named(media, allowed)
            \/ Named(allowed, Json) /\ media.type = "application" /\ media.suffix = "json"
         /\ Named(media, Form) => media.boundary

=============================================================================
