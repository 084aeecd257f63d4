--------------------------- MODULE Negotiation ---------------------------
(***************************************************************************)
(* The decisions FastdlServer::serveFile() takes from request headers:     *)
(* byte ranges, conditional requests and content coding.  A header is      *)
(* given by its parsed structure; numbers are sequences of digits, read    *)
(* with the width of std::uint64_t.                                        *)
(***************************************************************************)
EXTENDS Integers, Sequences, SequencesExt

CONSTANT MaxUnsigned   \* the largest std::uint64_t

ASSUME NegotiationConstants == MaxUnsigned \in Nat /\ MaxUnsigned >= 9

-----------------------------------------------------------------------------
(* Byte ranges *)

NotANumber == -1

\* parseUnsigned(); a character that is no digit is any number above 9.
ParseUnsigned(text) ==
    LET Digit(parsed, d) ==
          IF parsed = NotANumber \/ d > 9 \/ parsed > (MaxUnsigned - d) \div 10
          THEN NotANumber ELSE parsed * 10 + d
        value[i \in 0..Len(text)] == IF i = 0 THEN 0 ELSE Digit(value[i - 1], text[i])
    IN IF text = <<>> THEN NotANumber ELSE value[Len(text)]

Smaller(a, b) == IF a < b THEN a ELSE b
NoRange == [status |-> "None", start |-> 0, length |-> 0]
Refused(status) == [NoRange EXCEPT !.status = status]
Span(first, last) == [status |-> "Valid", start |-> first, length |-> last - first + 1]

\* "-n": the last n bytes
SuffixRange(n, total) == Span(total - Smaller(n, total), total - 1)

\* "a-", "a-b"
ExclusiveEnd(first, text, total) ==
    LET last == IF text = <<>> THEN total - 1 ELSE ParseUnsigned(text) IN
    IF first >= total \/ last = NotANumber \/ last < first
    THEN Refused("Unsatisfiable")
    ELSE Span(first, Smaller(last - 1, total - 1))
OpenRange(first, text, total) ==
    LET last == IF text = <<>> THEN total - 1 ELSE ParseUnsigned(text) IN
    IF first >= total \/ last = NotANumber \/ last < first
    THEN Refused("Unsatisfiable")
    ELSE Span(first, Smaller(last, total - 1))

\* parseRange(): a malformed header has another unit, a list of ranges, or not
\* exactly one dash.
ParseRange(header, total) ==
    CASE header.form = "none" -> NoRange
      [] header.form = "malformed" -> Refused("Invalid")
      [] header.form = "bytes" /\ total = 0 -> Refused("Unsatisfiable")
      [] OTHER ->
           LET first  == ParseUnsigned(header.first)
               suffix == ParseUnsigned(header.last) IN
           IF header.first = <<>>
           THEN IF suffix \in {NotANumber, 0} THEN Refused("Invalid")
                ELSE SuffixRange(suffix, total)
           ELSE IF first = NotANumber THEN Refused("Invalid")
                ELSE OpenRange(first, header.last, total)

-----------------------------------------------------------------------------
(* Validators *)

\* makeEtag(): size, modification time and file identity name a version.
MakeEtag(version, gzip) == [version |-> version, gzip |-> gzip]

\* etagMatches(): one of a list, or "*"; W/ is ignored.
AnyEtag == [version |-> 0, gzip |-> TRUE]
EtagMatches(list, etag) == etag \in list \/ AnyEtag \in list

\* ifRangeMatches(): no header, the entity tag, or a date that is not earlier.
AnyIfRange(value, etag, modified) == TRUE
IfRangeMatches(value, etag, modified) ==
    \/ value.form = "none"
    \/ value.form = "etag" /\ value.etag = etag
    \/ value.form = "date" /\ modified <= value.date

\* If-Modified-Since counts only without If-None-Match; -1 is no date.
SinceReversed(ifNone, ifSince, etag, modified) ==
    IF ifNone # {} THEN EtagMatches(ifNone, etag)
    ELSE ifSince # -1 /\ modified >= ifSince
NotModified(ifNone, ifSince, etag, modified) ==
    IF ifNone # {} THEN EtagMatches(ifNone, etag)
    ELSE ifSince # -1 /\ modified <= ifSince

-----------------------------------------------------------------------------
(* Content coding *)

\* acceptsGzip(): the codings in order, each with the verdict of its q values;
\* the first "gzip" decides, otherwise the last "*".
FirstMatch(items) ==
    LET match == SelectSeq(items, LAMBDA i : i.coding \in {"gzip", "*"})
    IN match # <<>> /\ match[1].allowed
AcceptsGzip(items) ==
    LET Of(c) == {i \in DOMAIN items : items[i].coding = c} IN
    IF Of("gzip") # {} THEN items[Min(Of("gzip"))].allowed
    ELSE Of("*") # {} /\ items[Max(Of("*"))].allowed

-----------------------------------------------------------------------------
(* What the headers mean, for comparison *)

Value(text) ==
    LET value[i \in 0..Len(text)] == IF i = 0 THEN 0 ELSE value[i - 1] * 10 + text[i]
    IN value[Len(text)]
Number(text) == text # <<>> /\ \A i \in DOMAIN text : text[i] <= 9

\* The bytes of a representation of total bytes that a range asks for
Selected(header, total) ==
    {i \in 0..(total - 1) :
       IF header.first = <<>>
       THEN Number(header.last) /\ i >= total - Value(header.last)
       ELSE /\ Number(header.first) /\ i >= Value(header.first)
            /\ \/ header.last = <<>>
               \/ Number(header.last) /\ i <= Value(header.last)}

\* Numbers beyond the width are not understood.
Understood(text) == text = <<>> \/ (Number(text) /\ Value(text) <= MaxUnsigned)
=============================================================================
