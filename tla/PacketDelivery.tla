--------------------------- MODULE PacketDelivery ---------------------------
(***************************************************************************)
(* The data packet of a market close on its way to the reader: the digest  *)
(* is formatted, its packet cut into parts, the whole perhaps truncated,   *)
(* and posted to Slack message by message until a post fails; somebody     *)
(* copies messages, in any order, not all or some twice, and               *)
(* tools/verify_slack_packet_reassembly.py says whether the packet is      *)
(* whole.  A text is a sequence of lines, a line has a kind and a length;  *)
(* the five lines that head a part are one line "part" here.               *)
(***************************************************************************)
EXTENDS Integers, Sequences, FiniteSets, SequencesExt

CONSTANTS
    Digests,      \* [date, preamble, body]: lines before and in the packet
    ChunkSize,    \* PACKET_CHUNK_SIZE
    MaxChars,     \* AUTO_TRADING_DATA_DIGEST_MAX_CHARS
    MaxDigests,   \* bound: digests built
    MaxCopies     \* bound: messages copied

ASSUME PacketAssumption ==
    ChunkSize \in Nat \ {0} /\ MaxChars \in Nat \ {0} /\ MaxDigests \in Nat /\ MaxCopies \in Nat

VARIABLES
    outbox,    \* the messages of the digest being posted that are left
    slack,     \* the messages posted, each a text
    built,     \* history: the digests built
    copied,    \* the indices of the messages copied, in the order of the paste
    verdict    \* of the reassembly, "none" before

packetVars == <<outbox, slack, built, copied, verdict>>

NoVerdict == [status |-> "none", date |-> 0, text |-> <<>>]

PacketInit ==
    /\ outbox = <<>> /\ slack = <<>> /\ built = <<>>
    /\ copied = <<>> /\ verdict = NoVerdict

PacketTypeOK ==
    /\ Range(copied) \subseteq DOMAIN slack /\ Len(built) <= MaxDigests
    /\ verdict.status \in {"none", "PASS", "WARN", "FAIL"}

-----------------------------------------------------------------------------
Size(lines) == FoldSeq(LAMBDA line, sum : sum + line.size + 1, 0, lines)

\* _chunk_lines: a chunk ends before the line that would make it too long; a
\* line that is too long by itself is a chunk.
ChunkLines(lines) ==
    FoldLeft(LAMBDA chunks, line :
                 IF Last(chunks) # <<>> /\ Size(Last(chunks)) + line.size + 1 > ChunkSize
                 THEN Append(chunks, <<line>>)
                 ELSE Front(chunks) \o << Append(Last(chunks), line) >>,
             << <<>> >>, lines)

\* format_auto_trading_data_packet; _packet_body ends with the hints
PartLine(date, n, total) ==
    [kind |-> "part", size |-> 1, date |-> date, no |-> n, total |-> total,
     complete |-> n = total]
Packet(digest) ==
    LET chunks == ChunkLines(digest.body) IN
    FlattenSeq([n \in DOMAIN chunks |->
                  <<PartLine(digest.date, n, Len(chunks))>> \o chunks[n]])

\* _truncate_digest
Truncated(lines) ==
    LET fits == {n \in 0 .. Len(lines) : Size(SubSeq(lines, 1, n)) <= MaxChars} IN
    SubSeq(lines, 1, CHOOSE n \in fits : \A m \in fits : m <= n)
DigestText(digest) == Truncated(digest.preamble \o Packet(digest))

PartLines(text) == {i \in DOMAIN text : text[i].kind = "part"}
\* The blocks of a text, each from one part line to the next.
BlockAt(text, i) ==
    LET later == {j \in PartLines(text) : j > i} IN
    SubSeq(text, i, IF later = {} THEN Len(text)
                    ELSE (CHOOSE j \in later : \A k \in later : j <= k) - 1)
Blocks(text) ==
    LET starts == SetToSortSeq(PartLines(text), <) IN
    [n \in DOMAIN starts |-> BlockAt(text, starts[n])]
Preamble(text) ==
    IF PartLines(text) = {} THEN text
    ELSE SubSeq(text, 1, (CHOOSE j \in PartLines(text) : \A k \in PartLines(text) : j <= k) - 1)

\* slack_digest_message_bodies: what precedes the first part goes with it.
MessageBodies(text) ==
    IF Cardinality(PartLines(text)) <= 1 THEN <<text>>
    ELSE LET blocks == Blocks(text) IN
         [n \in DOMAIN blocks |-> IF n = 1 THEN Preamble(text) \o blocks[n] ELSE blocks[n]]

\* save_auto_trading_data_digest
BuildsDigest(digest) ==
    /\ outbox = <<>> /\ copied = <<>> /\ Len(built) < MaxDigests
    /\ built' = Append(built, digest)
    /\ outbox' = MessageBodies(DigestText(digest))
    /\ UNCHANGED <<slack, copied, verdict>>
\* send_slack_digest_message: a post that is not ok raises and ends it, one that
\* times out may have arrived.
Posts(arrived, ok) ==
    /\ outbox # <<>> /\ (ok => arrived)
    /\ slack' = IF arrived THEN Append(slack, Head(outbox)) ELSE slack
    /\ outbox' = IF ok THEN Tail(outbox) ELSE <<>>
    /\ UNCHANGED <<built, copied, verdict>>

-----------------------------------------------------------------------------
Copies(i) ==
    /\ outbox = <<>> /\ verdict = NoVerdict /\ Len(copied) < MaxCopies
    /\ copied' = Append(copied, i)
    /\ UNCHANGED <<outbox, slack, built, verdict>>
Paste == FlattenSeq([n \in DOMAIN copied |-> slack[copied[n]]])

\* _collect_parts: the blocks of this packet, the first of the paste with what
\* precedes it if that is a digest.  Lines of a digest that is pasted behind a
\* block belong to that block.
CollectedParts(date) ==
    LET blocks == Blocks(Paste)
        before == Preamble(Paste)
        \* _parse_part
        parts == [n \in DOMAIN blocks |->
                    [head |-> blocks[n][1],
                     text |-> IF n = 1 /\ \E i \in DOMAIN before : before[i].kind = "digest"
                              THEN before \o blocks[n] ELSE blocks[n]]]
    IN  SelectSeq(parts, LAMBDA part : part.head.date = date)
PartNumbers(parts) == {parts[i].head.no : i \in DOMAIN parts}

\* _unique_parts: of each number the first.
FirstWith(parts, no) ==
    parts[CHOOSE i \in DOMAIN parts :
            parts[i].head.no = no /\ \A j \in 1 .. i - 1 : parts[j].head.no # no]
Mutant_UniqueParts(parts) ==
    SelectSeq(parts, LAMBDA part : part = FirstWith(parts, part.head.no))
UniqueParts(parts) ==
    LET numbers == SetToSortSeq(PartNumbers(parts), <) IN
    [n \in DOMAIN numbers |-> FirstWith(parts, numbers[n])]

RequiredSections == {"digest", "ledger", "problems", "hints"}

\* reassemble_slack_packet; the row counts are not given
Reassembles(date) ==
    /\ outbox = <<>> /\ built # <<>> /\ verdict = NoVerdict
    /\ LET parts == CollectedParts(date)
           unique == UniqueParts(parts)
           text == FlattenSeq([n \in DOMAIN unique |-> unique[n].text])
           kinds == {text[i].kind : i \in DOMAIN text}
           expected == FoldSeq(LAMBDA part, most :
                           IF part.head.total > most THEN part.head.total ELSE most, 0, parts)
           \* _packet_complete_ok
           complete == {part \in Range(unique) : part.head.complete}
           failed == \/ unique = <<>>
                     \/ ~ (1 .. expected \subseteq PartNumbers(parts))
                     \/ {part.head.no : part \in complete} # {expected}
                     \/ ~ (RequiredSections \subseteq kinds)
           warned == \/ Len(unique) < Len(parts)
                     \/ "sources" \notin kinds
       IN  verdict' = [status |-> CASE failed -> "FAIL" [] ~failed /\ warned -> "WARN"
                                    [] OTHER -> "PASS",
                       date |-> date, text |-> text]
    /\ UNCHANGED <<outbox, slack, built, copied>>

PacketNext ==
    \/ \E digest \in Digests : BuildsDigest(digest)
    \/ \E arrived, ok \in BOOLEAN : Posts(arrived, ok)
    \/ \E i \in DOMAIN slack : Copies(i)
    \/ \E digest \in Digests : Reassembles(digest.date)

PacketSpec == PacketInit /\ [][PacketNext]_packetVars

-----------------------------------------------------------------------------
InPacket(text) == SelectSeq(text, LAMBDA line : line.kind \notin {"digest", "part"})
UpToSources(text) ==
    LET at == {i \in DOMAIN text : text[i].kind = "sources"} IN
    IF at = {} THEN <<>> ELSE SubSeq(text, 1, CHOOSE i \in at : TRUE)
BuiltFor(date) == SelectSeq(built, LAMBDA digest : digest.date = date)

\* Whatever was lost on the way, cut off or copied in a wrong order, a packet
\* that is accepted has all the lines that were written, in their order, as far
\* as the files to inspect.  Not meant: two digests for one date, which share
\* the id of the packet.
AcceptedIsWhole ==
    (verdict.status = "PASS" /\ Len(BuiltFor(verdict.date)) = 1) =>
        UpToSources(InPacket(verdict.text)) = UpToSources(BuiltFor(verdict.date)[1].body)
=============================================================================
