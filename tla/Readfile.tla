------------------------------ MODULE Readfile ------------------------------
(***************************************************************************)
(* The readfile extension (extension/readfile.c): the readfile() function *)
(* (do_readfile) and the input parser that makes a whole file one record  *)
(* (readfile_can_take_file, readfile_take_control_of, readfile_get_record),*)
(* both through read_file_to_buffer.                                       *)
(*                                                                         *)
(* The environment is gawk's input code (io.c, not under src/): it opens  *)
(* the file and fstat's it into the iobuf, hands it to the parser, calls  *)
(* get_record until EOF, and may close the file at any time (nextfile,    *)
(* close(), exit); and another process writing the same file.  A file's  *)
(* contents are abstracted to its length and a generation: appending      *)
(* keeps the bytes already there (same gen), rewriting replaces them.     *)
(* int and size_t are IntBits- and SizeBits-bit; the checked instance     *)
(* scales them down so that sizes at and beyond INT_MAX occur.            *)
(***************************************************************************)
EXTENDS Integers, FiniteSets

CONSTANTS
  IntBits,    \* width of int
  SizeBits,   \* width of size_t (and off_t's range here)
  Lens,       \* lengths the writer can give the file
  MaxGen,     \* bound on rewrites
  MaxOpens,   \* bound on the times gawk opens the file
  MaxRecords  \* bound on the records of one opening gawk asks for

INT_MAX  == 2^(IntBits - 1) - 1
HALF_SIZE_MAX == (2^SizeBits - 1) \div 2     \* (size_t)-1/2
EOF == -1
NULL == [null |-> TRUE]
NoBuf == -1     \* opaque == NULL

(* (int) of a non-negative size: two's complement on IntBits bits.        *)
IntOf(x) == ((x + 2^(IntBits - 1)) % 2^IntBits) - 2^(IntBits - 1)

VARIABLES
  file,      \* [reg, len, gen]: the file on disk
  procinfo,  \* PROCINFO["readfile"] exists
  io,        \* gawk's awk_input_buf_t: [open, taken, stat, pos, opaque, eof]
  heap,      \* buffers read_file_to_buffer allocated and nobody freed
  nbuf,      \* buffers allocated so far (fresh names)
  opens,     \* times the file was opened
  records,   \* records get_record returned since the iobuf was opened
  ret,       \* the last result: [count, rec] of get_record or readfile()
  rf         \* readfile(): NULL, or the stat it took before opening

vars == <<file, procinfo, io, heap, nbuf, opens, records, ret, rf>>

Closed == [open |-> FALSE, taken |-> FALSE, stat |-> [reg |-> TRUE, len |-> 0],
           pos |-> 0, opaque |-> NoBuf, eof |-> FALSE]
NoResult == [count |-> EOF, rec |-> NULL]

Init ==
  /\ file \in [reg : BOOLEAN, len : Lens, gen : {0}]
  /\ procinfo \in BOOLEAN
  /\ io = Closed
  /\ heap = {} /\ nbuf = 0 /\ opens = 0 /\ records = 0
  /\ ret = NoResult
  /\ rf = NULL

(* read(fd, text, size) at offset pos: the bytes there, at most size.      *)
ReadCount(pos, size) == IF file.len - pos < size THEN file.len - pos ELSE size

(* Seeded-bug variant: the short-read test dropped.                        *)
ReadToBufferNoCheck(st, pos, limit) ==
  CASE ~st.reg -> [ok |-> FALSE, err |-> "EINVAL", n |-> 0]
    [] st.len > limit -> [ok |-> FALSE, err |-> "EFBIG", n |-> 0]
    [] OTHER -> [ok |-> TRUE, err |-> "", n |-> ReadCount(pos, st.len)]

(* read_file_to_buffer(fd, sbuf, limit): EINVAL for a file that is not    *)
(* regular, EFBIG beyond limit, the read's errno on a short read (the     *)
(* buffer freed); n is what the read consumed.                            *)
read_file_to_buffer(st, pos, limit) ==
  CASE ~st.reg -> [ok |-> FALSE, err |-> "EINVAL", n |-> 0]
    [] st.len > limit -> [ok |-> FALSE, err |-> "EFBIG", n |-> 0]
    [] ReadCount(pos, st.len) # st.len ->
         [ok |-> FALSE, err |-> "short", n |-> ReadCount(pos, st.len)]
    [] OTHER -> [ok |-> TRUE, err |-> "", n |-> st.len]

(* The bytes a successful read returned: the first len bytes of the file  *)
(* as it is, with the length the file had then (for the properties).      *)
Rec(len) == [len |-> len, gen |-> file.gen, filelen |-> file.len]

(* gawk opens the file (fstat into iobuf) and offers it to the parsers:   *)
(* readfile_can_take_file wants it when PROCINFO["readfile"] exists, and  *)
(* readfile_take_control_of installs readfile_get_record.                  *)
Open ==
  /\ ~io.open /\ opens < MaxOpens
  /\ io' = [Closed EXCEPT !.open = TRUE, !.taken = procinfo,
                          !.stat = [reg |-> file.reg, len |-> file.len]]
  /\ opens' = opens + 1
  /\ records' = 0
  /\ UNCHANGED <<file, procinfo, heap, nbuf, ret, rf>>

(* The limit readfile_get_record passes: the count it returns is an int.   *)
RecordLimitSize == HALF_SIZE_MAX   \* used by the seeded-bug variant
RecordLimit == INT_MAX

(* Seeded-bug variant: no test of opaque, every call reads.                *)
GetRecordNoOpaque ==
  LET r == read_file_to_buffer(io.stat, io.pos, RecordLimit) IN
  /\ io' = [io EXCEPT !.pos = @ + r.n, !.eof = ~r.ok,
                      !.opaque = IF r.ok THEN nbuf ELSE @]
  /\ heap' = IF r.ok THEN heap \cup {nbuf} ELSE heap
  /\ nbuf' = IF r.ok THEN nbuf + 1 ELSE nbuf
  /\ records' = IF r.ok THEN records + 1 ELSE records
  /\ ret' = IF r.ok THEN [count |-> IntOf(io.stat.len), rec |-> Rec(io.stat.len)]
            ELSE NoResult

(* readfile_get_record: the first call reads the file and keeps the text  *)
(* in opaque; the next frees it and returns EOF.                            *)
GetRecordBody ==
  IF io.opaque # NoBuf
  THEN /\ heap' = heap \ {io.opaque}
       /\ io' = [io EXCEPT !.opaque = NoBuf, !.eof = TRUE]
       /\ ret' = NoResult
       /\ UNCHANGED <<nbuf, records>>
  ELSE LET r == read_file_to_buffer(io.stat, io.pos, RecordLimit) IN
       /\ io' = [io EXCEPT !.pos = @ + r.n, !.eof = ~r.ok,
                           !.opaque = IF r.ok THEN nbuf ELSE @]
       /\ heap' = IF r.ok THEN heap \cup {nbuf} ELSE heap
       /\ nbuf' = IF r.ok THEN nbuf + 1 ELSE nbuf
       /\ records' = IF r.ok THEN records + 1 ELSE records
       /\ ret' = IF r.ok THEN [count |-> IntOf(io.stat.len), rec |-> Rec(io.stat.len)]
                 ELSE NoResult

(* gawk asks for the next record of a file the parser took, until EOF.    *)
GetRecord ==
  /\ io.open /\ io.taken /\ ~io.eof
  /\ records < MaxRecords
  /\ GetRecordBody
  /\ UNCHANGED <<file, procinfo, opens, rf>>

(* gawk closes the file; the parser has no close_func, so opaque is not   *)
(* looked at.                                                               *)
Close ==
  /\ io.open
  /\ io' = Closed
  /\ UNCHANGED <<file, procinfo, heap, nbuf, opens, records, ret, rf>>

(* do_readfile, first half: xstat(filename, &sbuf).                        *)
ReadfileStat ==
  /\ rf = NULL
  /\ rf' = [reg |-> file.reg, len |-> file.len]
  /\ UNCHANGED <<file, procinfo, io, heap, nbuf, opens, records, ret>>

(* do_readfile, second half: open, read_file_to_buffer with limit          *)
(* (size_t)-1/2 from offset 0, close; the text becomes the result string   *)
(* of length sbuf.st_size (gawk owns it), or the result stays "".          *)
ReadfileRead ==
  /\ rf # NULL
  /\ LET r == read_file_to_buffer(rf, 0, HALF_SIZE_MAX)
     IN  ret' = IF r.ok THEN [count |-> rf.len, rec |-> Rec(rf.len)] ELSE NoResult
  /\ rf' = NULL
  /\ UNCHANGED <<file, procinfo, io, heap, nbuf, opens, records>>

(* Another process appends to the file or rewrites it.                     *)
Append(n) ==
  /\ n > file.len
  /\ file' = [file EXCEPT !.len = n]
  /\ UNCHANGED <<procinfo, io, heap, nbuf, opens, records, ret, rf>>
Rewrite(n) ==
  /\ file.gen < MaxGen
  /\ file' = [file EXCEPT !.len = n, !.gen = @ + 1]
  /\ UNCHANGED <<procinfo, io, heap, nbuf, opens, records, ret, rf>>

Next ==
  \/ Open \/ GetRecord \/ Close
  \/ ReadfileStat \/ ReadfileRead
  \/ \E n \in Lens : Append(n) \/ Rewrite(n)

Spec == Init /\ [][Next]_vars

(* gawk's main loop asks the parser for the next record as long as the    *)
(* file is open and has not reported EOF; the writer, readfile() and the   *)
(* closing of the file are not obliged to happen.                          *)
FairSpec == Spec /\ WF_vars(GetRecord)

-----------------------------------------------------------------------------
(* What get_record or readfile() hands back as the file's text was in the *)
(* file when it was read: however the file changed between the stat the    *)
(* size comes from and the read, no byte beyond the file's end is passed   *)
(* off as contents; and the count readfile_get_record returns for it is    *)
(* its length, the int conversion of st_size never turning a record into  *)
(* a negative count or into EOF.                                           *)
RecordIsPrefix ==
  ret.rec # NULL => ret.rec.len <= ret.rec.filelen /\ ret.count = ret.rec.len

(* The parser gives each opening of a file exactly one record at most:     *)
(* gawk sees the file once, the empty file included.                       *)
OneRecordPerOpen == records <= 1

(* Every buffer get_record allocated is either freed or still held in      *)
(* opaque of the open iobuf, whenever gawk stops reading the file.          *)
NoLeak == \A b \in heap : io.open /\ io.opaque = b

(* Once gawk hands an opened file to the parser, the parser reports EOF or *)
(* the file is closed: the record call and the EOF call that follows it   *)
(* end the file, the empty file and a file that changed under the read    *)
(* included, so gawk's loop over get_record terminates.                   *)
ReachesEOF == (io.open /\ io.taken) ~> (io.eof \/ ~io.open)

=============================================================================
