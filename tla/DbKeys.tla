------------------------------- MODULE DbKeys -------------------------------
(***************************************************************************)
(* The keys of the tables. A key is a tuple of strings and numbers, made   *)
(* into bytes with a separator that no string contains; a number has a     *)
(* fixed width, and its bytes may be anything, the separator among them.   *)
(* Whatever the services list, they list by a scan over such keys, from    *)
(* the first bytes of a key on, forwards or backwards, and read the keys   *)
(* back from their bytes.                                                  *)
(*                                                                         *)
(* A byte is a number up to SEP here, which stands for 255.                *)
(***************************************************************************)
EXTENDS Integers, SequencesExt, FiniteSetsExt

CONSTANTS SEP,         \* the separator, the greatest byte
          WIDTH,       \* the bytes of a number
          Word,        \* strings
          Count,       \* numbers
          Layout,      \* tables: the types of their keys, and the scans made of them
          MaxRows      \* bound: rows of a table

Base == SEP + 1
MAX == Base ^ WIDTH - 1

ASSUME DbKeysAssumption ==
    /\ SEP \in Nat \ {0} /\ WIDTH \in Nat \ {0} /\ Count \subseteq 0 .. MAX - 1
    /\ \A w \in Word : w # <<>> /\ w \in Seq(0 .. SEP - 1)

VARIABLES layout, table, scan

dbKeysVars == <<layout, table, scan>>

\* A string that follows a number which no other row has is always the same one.
Values(type) ==
    CASE type = "num" -> Count
      [] type = "opt" -> Word \cup {<<>>}
      [] type = "str" -> Word
      [] type = "last" -> {CHOOSE w \in Word : TRUE}
Tuples(types) == FoldLeft(LAMBDA rows, type : {Append(r, v) : r \in rows, v \in Values(type)}, {<<>>}, types)

-----------------------------------------------------------------------------
(* Serializing.                                                            *)

to_be_bytes(n) == [i \in 1 .. WIDTH |-> (n \div Base ^ (WIDTH - i)) % Base]

\* A separator is put before each element but the first. None is written as nothing.
serialize(types, row) ==
    FlattenSeq([i \in DOMAIN row |-> (IF i = 1 THEN <<>> ELSE <<SEP>>)
                                     \o IF types[i] = "num" THEN to_be_bytes(row[i]) ELSE row[i]])

\* With the directive Interfix as its last element.
interfix(types, row) == serialize(types, row) \o <<SEP>>

-----------------------------------------------------------------------------
(* Deserializing: the position in the buffer, the records begun, and the   *)
(* elements read.                                                          *)

from_be_bytes(bytes) == FoldLeft(LAMBDA n, b : n * Base + b, 0, bytes)

remaining(d) == SubSeq(d.buf, d.pos + 1, Len(d.buf))
inc_pos(d, n, element) == [d EXCEPT !.pos = @ + n, !.row = Append(@, element)]

\* Up to the next separator.
record_next(d) ==
    LET stops == {i \in DOMAIN remaining(d) : remaining(d)[i] = SEP}
    IN IF stops = {} THEN remaining(d) ELSE SubSeq(remaining(d), 1, Min(stops) - 1)

record_start(d) == [d EXCEPT !.pos = IF d.pos # 0 \/ d.rec > 0 THEN @ + 1 ELSE @, !.rec = @ + 1]

deserialize_str(d) == inc_pos(d, Len(record_next(d)), record_next(d))
record_ignore(d) == inc_pos(d, Len(record_next(d)), <<>>)
deserialize_option(d) ==
    IF d.pos >= Len(d.buf) \/ d.buf[d.pos + 1] = SEP THEN inc_pos(d, 0, <<>>) ELSE deserialize_str(d)

deserialize_u64_record(d) ==
    IF d.pos + WIDTH > Len(d.buf) THEN [d EXCEPT !.ok = FALSE]
    ELSE inc_pos(d, Len(record_next(d)), from_be_bytes(record_next(d)))

\* A number is as long as it is, whatever its bytes.
deserialize_u64(d) ==
    IF d.pos + WIDTH > Len(d.buf) THEN [d EXCEPT !.ok = FALSE]
    ELSE inc_pos(d, WIDTH, from_be_bytes(SubSeq(d.buf, d.pos + 1, d.pos + WIDTH)))

next_element(d, type) ==
    IF ~d.ok \/ d.pos >= Len(d.buf) THEN [d EXCEPT !.ok = FALSE]
    ELSE LET e == record_start(d)
         IN CASE type = "num" -> deserialize_u64(e)
              [] type = "opt" -> deserialize_option(e)
              [] type = "ignore" -> record_ignore(e)
              [] OTHER -> deserialize_str(e)

from_slice(types, buf) ==
    FoldLeft(next_element, [buf |-> buf, pos |-> 0, rec |-> 0, row |-> <<>>, ok |-> TRUE], types)

-----------------------------------------------------------------------------
(* The cursor of the storage engine, over the rows there were when it was  *)
(* made. It orders keys by their bytes.                                    *)

End == <<>>
before(a, b) ==
    \/ IsStrictPrefix(a, b)
    \/ \E i \in DOMAIN a \cap DOMAIN b : a[i] < b[i] /\ \A j \in 1 .. i - 1 : a[j] = b[j]

least(keys) == IF keys = {} THEN End ELSE CHOOSE k \in keys : \A x \in keys : k = x \/ before(k, x)
greatest(keys) == IF keys = {} THEN End ELSE CHOOSE k \in keys : \A x \in keys : k = x \/ before(x, k)

\* seek, and seek_for_prev.
init_fwd(keys, from) == least({k \in keys : k = from \/ before(from, k)})
init_rev(keys, from) == greatest({k \in keys : k = from \/ before(k, from)})

\* The first step stays where the cursor was put.
seek_fwd(s) == IF s.init THEN s.at ELSE least({k \in s.keys : before(s.at, k)})
seek_rev(s) == IF s.init THEN s.at ELSE greatest({k \in s.keys : before(k, s.at)})

-----------------------------------------------------------------------------
(* The scans. What a scan asks for: the first elements of the keys, and    *)
(* bounds of the element after them.                                       *)

types == layout.types
keys_of(rows) == {serialize(types, r) : r \in rows}
Firsts(k) == Tuples(SubSeq(types, 1, k))
scans(kind, first, bound, to, key, at, reads) ==
    scan' = [kind |-> kind, first |-> first, bound |-> bound, to |-> to, key |-> key, reads |-> reads,
             rows |-> table, keys |-> keys_of(table), at |-> at, init |-> TRUE, found |-> <<>>, done |-> FALSE]
no_scan == [kind |-> "none", done |-> FALSE]
Unchanged == UNCHANGED <<layout, table>>

\* The elements of the prefix are skipped when the key is read.
stream_prefix(first) ==
    /\ scan.kind = "none"
    /\ LET key == interfix(types, first)
           reads == [i \in DOMAIN types |-> IF i <= Len(first) THEN "ignore" ELSE types[i]]
       IN scans("prefix", first, 0, 0, key, init_fwd(keys_of(table), key), reads)
    /\ Unchanged

\* get_to_device_events, readreceipts_since, changes_since, keys_changed
stream_from(first, since, to) ==
    /\ scan.kind = "none"
    /\ LET key == serialize(types, Append(first, since + 1))
       IN scans("from", first, since, to, key, init_fwd(keys_of(table), key), layout.reads)
    /\ Unchanged

\* remove_to_device_events, and get_latest_backup, which asks for strings with a number.
rev_stream_from(first, until) ==
    /\ scan.kind = "none"
    /\ LET key == serialize([types EXCEPT ![Len(first) + 1] = "num"], Append(first, until))
       IN scans("rev", first, until, 0, key, init_rev(keys_of(table), key), types)
    /\ Unchanged

\* A prefix is looked for in the bytes; otherwise the elements are compared, and keys that
\* cannot be read are left out.
wanted(at, read) ==
    IF scan.kind = "prefix" THEN IsPrefix(scan.key, at)
    ELSE read.ok => LET k == Len(scan.first)
                    IN SubSeq(read.row, 1, k) = scan.first /\ (scan.kind = "from" => read.row[k + 1] <= scan.to)

poll_next ==
    /\ scan.kind # "none" /\ ~scan.done
    /\ LET at == IF scan.kind = "rev" THEN seek_rev(scan) ELSE seek_fwd(scan)
           read == from_slice(scan.reads, at)
       IN IF at = End \/ ~wanted(at, read) THEN scan' = [scan EXCEPT !.done = TRUE]
          ELSE scan' = [scan EXCEPT !.at = at, !.init = FALSE,
                                    !.found = IF read.ok THEN Append(@, read.row) ELSE @]
    /\ Unchanged

\* A write does not change what a cursor sees; of those made during a scan, only the ones that
\* the scan itself makes are considered.
put(row) ==
    /\ scan.kind = "none"
    /\ Cardinality(table) < MaxRows /\ table' = table \cup {row}
    /\ UNCHANGED <<layout, scan>>

\* remove_to_device_events removes the rows it has found. A row is removed by its bytes.
del(row) ==
    /\ scan.kind = "none" \/ (scan.kind = "rev" /\ row \in ToSet(scan.found))
    /\ table' = {r \in table : serialize(types, r) # serialize(types, row)}
    /\ UNCHANGED <<layout, scan>>

scanDone == scan.done /\ UNCHANGED dbKeysVars

InitDbKeys == layout \in Layout /\ table = {} /\ scan = no_scan
IdleDbKeys == layout = (CHOOSE l \in Layout : TRUE) /\ table = {} /\ scan = no_scan

NextDbKeys ==
    \/ \E r \in Tuples(types) \ table : put(r)
    \/ \E r \in table : del(r)
    \/ \E k \in layout.prefixes : \E first \in Firsts(k) : stream_prefix(first)
    \/ \E k \in layout.froms : \E first \in Firsts(k), since \in Count \cup {0}, to \in Count \cup {MAX} : stream_from(first, since, to)
    \/ \E k \in layout.revs : \E first \in Firsts(k), until \in Count \cup {MAX} : rev_stream_from(first, until)
    \/ poll_next
    \/ scanDone

-----------------------------------------------------------------------------
asked_for(r) ==
    LET k == Len(scan.first)
    IN /\ SubSeq(r, 1, k) = scan.first
       /\ scan.kind = "from" => r[k + 1] > scan.bound /\ r[k + 1] <= scan.to
       /\ scan.kind = "rev" /\ types[k + 1] = "num" => r[k + 1] <= scan.bound

\* A scan gives exactly the rows that it asks for, of those there were when it began: each
\* once, read as it was written but for the elements that are skipped, and numbers in order.
\* It holds although the bytes of numbers may contain the separator, strings begin with one
\* another, and rows are put and removed while the scan goes on.
ScansExact ==
    scan.done =>
        LET rows == {r \in scan.rows : asked_for(r)}
            seen(r) == [i \in DOMAIN r |-> IF scan.reads[i] = "ignore" THEN <<>> ELSE r[i]]
            k == Len(scan.first) + 1
        IN /\ Len(scan.found) = Cardinality(rows) /\ ToSet(scan.found) = {seen(r) : r \in rows}
           /\ types[k] = "num" => \A i \in DOMAIN scan.found : \A j \in 1 .. i - 1 :
                 IF scan.kind = "rev" THEN scan.found[j][k] >= scan.found[i][k]
                 ELSE scan.found[j][k] <= scan.found[i][k]
=============================================================================
