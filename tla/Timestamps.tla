------------------------------ MODULE Timestamps ------------------------------
(***************************************************************************)
(* OpenTimestamps proofs behind an archive: the trailer, the proof file and *)
(* its tree of operations (lib/src/uc2_ots.c), and the commands that attach,*)
(* extract and test them (cli/src/main.c).  Attaching rewrites the end of   *)
(* the archive where it lies, so it can be killed or fail after any part of *)
(* it, and the failure of a flush is not even noticed.                      *)
(*                                                                          *)
(* A file is a sequence of cells, each a pair of its kind and its content;  *)
(* a number of four bytes is one cell, and so is a digest, which stands for *)
(* what it is the digest of.  A magic is two cells, so that part of one may *)
(* be there.                                                                *)
(***************************************************************************)
EXTENDS Integers, Sequences

CONSTANTS Archive,     \* the cells of an archive without trailer
          Proofs,      \* proof files that may be attached, right and wrong ones
          WellFormed,  \* those of them whose tree is right
          MAX_PROOF,   \* longest proof of a trailer (2^20)
          MAX_FIELD,   \* longest operand or payload (UC2_OTS_MAX_VARBYTES)
          MAX_DIGEST,  \* longest digest (UC2_OTS_MAX_DIGEST_LEN)
          MAX_DEPTH,   \* deepest tree (UC2_OTS_MAX_DEPTH)
          WIDTH        \* bits of a number in a proof (64)

Magic == <<<<"magic", 1>>, <<"magic", 2>>>>
Number(n) == <<"number", n>>
ZeroCell == <<"zero", 0>>
SHA256(cells) == <<"sha256", cells>>
HeadSize == Len(Magic) + 3
TailSize == Len(Magic) + 1
Sub(s, from, n) == SubSeq(s, from + 1, from + n)
Failed(why) == [status |-> why]

\* uc2_ots_trailer_build(): [magic, version, archive length, proof length, proof, proof length, magic].
Build(n, p) == Magic \o <<Number(1), Number(n), Number(Len(p))>> \o p \o <<Number(Len(p))>> \o Magic

\* uc2_ots_trailer_parse(): found from the end; once the last magic is there all must fit.
Parse(f) ==
    LET last == f[Len(f) - TailSize + 1]
        length == last[2]
        start == Len(f) - (HeadSize + TailSize + length)
        head == Sub(f, start, HeadSize)
    IN  IF Len(f) < TailSize \/ Sub(f, Len(f) - Len(Magic), Len(Magic)) # Magic THEN Failed("None")
        ELSE IF last[1] # "number" \/ length > MAX_PROOF \/ start < 0 THEN Failed("Malformed")
        ELSE IF head # Magic \o <<Number(1), Number(start), Number(length)>>
             THEN Failed("Malformed")
        ELSE [status |-> "Found", archive |-> start, proof |-> Sub(f, start + HeadSize, length)]
------------------------------------------------------------------------------
(* Numbers of a proof, seven bits to a byte, the lowest first: the last    *)
(* byte alone is below 128, and no byte more than needed is accepted.      *)
VarintEncode(value) ==
    LET encode[v \in Nat] == IF v < 128 THEN <<v>> ELSE <<128 + (v % 128)>> \o encode[v \div 128] IN encode[value]

\* Faulty variant: a number may be written with more bytes than it needs.
VarintLoose(in) ==
    LET decode[i \in 0..Len(in), v \in Nat] ==
            LET group == in[i + 1] % 128
            IN  IF i = Len(in) THEN Failed("Truncated")
                ELSE IF 7 * i >= WIDTH \/ group * 2^(7 * i) >= 2^WIDTH THEN Failed("Overflow")
                ELSE IF in[i + 1] < 128 THEN [status |-> "Ok", value |-> v + group * 2^(7 * i), size |-> i + 1]
                ELSE decode[i + 1, v + group * 2^(7 * i)]
    IN  decode[0, 0]

VarintDecode(in) ==
    LET decode[i \in 0..Len(in), v \in Nat] ==
            LET b == in[i + 1]
                group == b % 128
            IN  IF i = Len(in) THEN Failed("Truncated")
                ELSE IF 7 * i >= WIDTH \/ group * 2^(7 * i) >= 2^WIDTH THEN Failed("Overflow")
                ELSE IF b = 0 /\ i > 0 THEN Failed("Noncanonical")
                ELSE IF b < 128 THEN [status |-> "Ok", value |-> v + group * 2^(7 * i), size |-> i + 1]
                ELSE decode[i + 1, v + group * 2^(7 * i)]
    IN  decode[0, 0]

(* A proof's tree: items in a row, each but the last behind a branch mark; *)
(* an attestation ends its item, an operation is followed by the tree of   *)
(* the digest it makes.  An item is <<kind, length, cells>>: the length is *)
(* written before the cells of an operand or a payload.  A walk returns    *)
(* what is left and what was attested.                                     *)
Walked(status, at, seen, structural) == [status |-> status, at |-> at, seen |-> seen, structural |-> structural]
Binary == {"append", "prepend"}
Unary == {"sha256", "sha1", "reverse"}
\* read_varbytes(), of the items that have such a field.
FieldStatus(decoded, cells) ==
    IF decoded.status # "Ok" THEN decoded.status
    ELSE IF decoded.value > MAX_FIELD THEN "TooLarge"
    ELSE IF decoded.value > Len(cells) THEN "Truncated" ELSE "Ok"
ReadVarbytes(item) == IF item[1] \in Unary THEN "Ok" ELSE FieldStatus(VarintDecode(item[2]), item[3])

\* apply_op(): what is not implemented leaves the digest and is only structure.
ApplyOp(op, digest) ==
    IF op[1] = "append" THEN digest \o op[3]
    ELSE IF op[1] = "prepend" THEN op[3] \o digest
    ELSE IF op[1] = "sha256" THEN <<SHA256(digest)>>
    ELSE digest
Known(op) == op[1] \in Binary \cup {"sha256"}

\* The digest after the operations ops of a tree, on the way down from its leaf.
DigestAfter(body, leaf, ops) ==
    LET after[n \in 0..Len(ops)] == IF n = 0 THEN leaf ELSE ApplyOp(body[ops[n]], after[n - 1]) IN after[Len(ops)]

\* walk_node(): an operation's depth is the number of those on its way.
Walk(body, leaf) ==
    LET walk[at \in 0..Len(body), ops \in Seq(1..Len(body))] ==
            LET branch == at < Len(body) /\ body[at + 1][1] = "branch"
                here == IF branch THEN at + 1 ELSE at
                item == body[here + 1]
                digest == DigestAfter(body, leaf, ops)
                child == walk[here + 1, Append(ops, here + 1)]
                one == IF item[1] \notin Binary \cup Unary \cup {"attestation"} THEN Walked("BadOp", here, {}, FALSE)
                       ELSE IF ReadVarbytes(item) # "Ok" THEN Walked(ReadVarbytes(item), here, {}, FALSE)
                       ELSE IF item[1] = "attestation" THEN Walked("Ok", here + 1, {<<item[3], digest>>}, FALSE)
                       ELSE IF Len(ApplyOp(item, digest)) > MAX_DIGEST THEN Walked("TooLarge", here, {}, FALSE)
                       ELSE [child EXCEPT !.structural = @ \/ ~Known(item)]
                rest == walk[one.at, ops]
            IN  IF Len(ops) >= MAX_DEPTH THEN Walked("Depth", at, {}, FALSE)
                ELSE IF here >= Len(body) THEN Walked("Truncated", here, {}, FALSE)
                ELSE IF one.status # "Ok" \/ ~branch THEN one
                ELSE [rest EXCEPT !.seen = @ \cup one.seen, !.structural = @ \/ one.structural]
        walked == walk[0, <<>>]
    IN  IF walked.status = "Ok" /\ walked.at # Len(body) THEN [walked EXCEPT !.status = "Overflow"] ELSE walked

\* uc2_ots_parse_file(): a magic, the hash operation, the leaf, and the tree.
ParseFile(p) ==
    IF Len(p) < 3 THEN Failed("Truncated")
    ELSE IF p[1][1] # "ots" THEN Failed("BadMagic")
    ELSE IF p[2] \notin {<<"hash", "sha256">>, <<"hash", "sha1">>} THEN Failed("BadHashOp")
    ELSE [status |-> "Ok", op |-> p[2][2], leaf |-> p[3], body |-> SubSeq(p, 4, Len(p))]
(* What an archive with a trailer rests on: neither the archive nor a proof *)
(* has the bytes of a magic, and nobody has stamped, in place of the        *)
(* archive, the archive with something behind it, such as what an attach    *)
(* leaves that was killed or lost its writes.                               *)
Plain(cells) ==
    cells \in Seq({cells[i] : i \in DOMAIN cells}) /\ \A i \in DOMAIN cells : cells[i][1] \notin {"magic", "number"}
Longer(cells) == Len(cells) > Len(Archive) /\ SubSeq(cells, 1, Len(Archive)) = Archive
StampsMore(p) == ParseFile(p).status = "Ok" /\ ParseFile(p).leaf[1] = "sha256" /\ Longer(ParseFile(p).leaf[2])
TimestampsAssumption ==
    /\ MAX_PROOF \in Nat
    /\ Plain(Archive)
    /\ \A p \in Proofs : Plain(p) /\ ~StampsMore(p)
ASSUME TimestampsAssumption
------------------------------------------------------------------------------
VARIABLES stamped,   \* the archive file, with what is behind the archive
          proof,     \* what is being attached, or <<>> between commands
          attested,  \* bytes to attest
          written,   \* cells of the trailer that have reached the file
          result     \* of the last command that ended
timestamps == <<stamped, proof, attested, written, result>>

TimestampsInit ==
    /\ stamped = Archive
    /\ proof = <<>>
    /\ attested = 0
    /\ written = 0
    /\ result = [status |-> "None", proof |-> <<>>, lost |-> FALSE]
Attaching == proof # <<>>
Ends(status, p, lost) ==
    /\ proof' = <<>>
    /\ attested' = 0
    /\ written' = 0
    /\ result' = [status |-> status, proof |-> p, lost |-> lost]

\* cmd_ots_attach() up to the digest of the archive: the proof, and a trailer there is already.
Refused(p, force, envelope, there, attest) ==
    \/ envelope.status # "Ok"
    \/ envelope.op # "sha256"
    \/ there.status = "Found" /\ ~force
    \/ there.status = "Malformed"
    \/ envelope.leaf # SHA256(SubSeq(stamped, 1, attest))
    \/ Len(p) > MAX_PROOF
Attach(p, force) ==
    /\ ~Attaching
    /\ LET there == Parse(stamped)
           attest == IF there.status = "Found" THEN there.archive ELSE Len(stamped)
       IN  IF Refused(p, force, ParseFile(p), there, attest) THEN Ends("Refused", <<>>, FALSE)
           ELSE proof' = p /\ attested' = attest /\ written' = 0 /\ UNCHANGED result
    /\ UNCHANGED stamped

Trailer == Build(attested, proof)
Overwritten(f, at, cell) == IF at < Len(f) THEN [f EXCEPT ![at + 1] = cell] ELSE Append(f, cell)

\* Cells reach the file in their order, from fwrite(), from fflush() or, when
\* that failed, from fclose(), which tries again.
WriteTrailer ==
    /\ Attaching
    /\ written < Len(Trailer)
    /\ stamped' = Overwritten(stamped, attested + written, Trailer[written + 1])
    /\ written' = written + 1
    /\ UNCHANGED <<proof, attested, result>>

\* uc2_truncate(): what a longer trailer left behind is cut off, and a file that
\* is short of writes is filled up with zeros.
Truncated ==
    [i \in 1..attested + Len(Trailer) |-> IF i \in DOMAIN stamped THEN stamped[i] ELSE ZeroCell]

\* Faulty variant: the file is not given its new end.
LeaveRest ==
    /\ Attaching
    /\ Ends("Attached", proof, written < Len(Trailer))
    /\ UNCHANGED stamped

\* The command succeeds, also when fflush() and fclose() lost some of the cells:
\* their results are ignored.
CutRest ==
    /\ Attaching
    /\ stamped' = Truncated
    /\ Ends("Attached", proof, written < Len(Trailer))

\* A write or the truncation fails and is noticed.
AttachFails ==
    /\ Attaching
    /\ Ends("Failed", <<>>, FALSE)
    /\ UNCHANGED stamped

\* Killed before or after the file was given its new end.
Killed ==
    /\ Attaching
    /\ stamped' \in {stamped, Truncated}
    /\ Ends("Killed", <<>>, FALSE)

\* cmd_ots_extract(), verify_trailer_if_present(): reading commands.
Extracted == Parse(stamped)
Verified ==
    LET there == Parse(stamped)
        envelope == ParseFile(there.proof)
    IN  IF there.status = "None" THEN TRUE
        ELSE /\ there.status = "Found"
             /\ envelope.status = "Ok" /\ envelope.op = "sha256"
             /\ envelope.leaf = SHA256(SubSeq(stamped, 1, there.archive))
             /\ Walk(envelope.body, <<envelope.leaf>>).status = "Ok"

TimestampsNext == (\E p \in Proofs, force \in BOOLEAN : Attach(p, force)) \/ WriteTrailer \/ CutRest \/ AttachFails \/ Killed
TimestampsSpec == TimestampsInit /\ [][TimestampsNext]_timestamps
------------------------------------------------------------------------------
\* The archive before the trailer is never touched, whatever is killed or fails.
ArchiveKept == SubSeq(stamped, 1, Len(Archive)) = Archive
\* An attach that succeeded and lost no write left its proof complete behind the
\* whole archive.
Stands == result.status = "Attached" /\ ~result.lost /\ ~Attaching
ProofFound ==
    Stands => Extracted = [status |-> "Found", archive |-> Len(Archive), proof |-> result.proof]
\* What a trailer in the file attests is the archive, whatever was killed, failed
\* or was lost.
AttestsArchive ==
    LET there == Parse(stamped)
    IN  there.status = "Found" => /\ there.archive = Len(Archive)
                                  /\ ParseFile(there.proof).leaf = SHA256(Archive)
(* What is attested is what was there: behind the whole archive, which is   *)
(* never touched, a proof of it, which is the one attached unless the disk  *)
(* lost a write of it unnoticed (cmd_ots_attach()).                         *)
AttestsTrue == ArchiveKept /\ ProofFound /\ AttestsArchive
\* Testing an archive accepts the proof attached exactly when its tree is well
\* formed.
AcceptsSound ==
    Stands => (Verified <=> result.proof \in WellFormed)
===============================================================================
