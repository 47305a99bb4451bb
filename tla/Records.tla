-------------------------------- MODULE Records --------------------------------
(***************************************************************************)
(* The bytes of one memtable number: Memtable's records and Bloom filter   *)
(* (db/memtable.cpp, util/bloomfilter.hpp, util/bitset.hpp), the SSTable   *)
(* file CompWorker writes from them (db/compactor.cpp) and what            *)
(* MemTable_view makes of the file (db/memtable_view.cpp).  DB::Set and    *)
(* DB::Delete also format a log record.                                    *)
(*                                                                         *)
(* Keys and values are sequences of bytes; the four hash functions are a   *)
(* parameter, their own code is the subject of HashReads and XXHash64.     *)
(***************************************************************************)
EXTENDS KeyFormat, SequencesExt

CONSTANTS
  Keys, Values,
  FilterBits,     \* N of BloomFilter, a multiple of 8
  Hashes,         \* Hashes[k]: the values of the four hash functions
  Numbers,        \* what the number of a request can hold: 0 when the request is
                  \* value-initialised, i in memtable_test.cpp
  Version, CreateTime, Seed,
  MaxOps, MaxLevel      \* bounds of the model

ASSUME FilterAssumption == FilterBits \in Nat \ {0} /\ FilterBits % 8 = 0
ASSUME HashAssumption == \A k \in Keys : Hashes[k] \in [1..4 -> Nat]

\* n < 2^32: it fits the uint32_t in which a log record keeps a size.
Fits32(n) == ((n \div 256) \div 256) \div 256 < 256
ASSUME KeyAssumption == \A s \in Keys \cup Values : s \in Seq(0..255) /\ Fits32(Len(s))

\* Memtable::Delete writes the number as a uint32_t.  (SetContext(key, value) leaves the
\* number uninitialised: what it holds then is outside this model.)
ASSUME NumberAssumption == \A n \in Numbers : n \in Nat /\ Fits32(n)

\* What the meta data of a file has room for: a time and a seed of at most the nine bytes
\* that format64_vec can leave, and a filter whose size takes the four bytes that a reader
\* looks at.  (The code has milliseconds since 1970, seed 12 and 262144 bytes.)
ASSUME FormatAssumption ==
  /\ Version \in Nat /\ Fits32(Version) /\ MaxLevel \in Nat /\ Fits32(MaxLevel)
  /\ CreateTime \in Nat /\ varintLength[CreateTime] <= 9
  /\ Seed \in Nat /\ varintLength[Seed] <= 9
  /\ FilterBits \div 8 < 268435456

VARIABLES
  memMap,     \* Memtable::memMap_, a set of records ordered by Comparator
  filter,     \* BitSet::data of bloomFilter_
  level,      \* compaction_number_
  files,      \* the SSTable files of the number, by level
  number,     \* DB::global_number_
  log,        \* the last record given to the write-ahead log, with its request
  writes      \* history, by level: the writes of each key
recordVars == <<memMap, filter, level, files, number, log, writes>>

-----------------------------------------------------------------------------
(* BitSet and BloomFilter.                                                 *)

kset_Remain_Idx == <<1, 2, 4, 8, 16, 32, 64, 128>>
Bit(idx) == kset_Remain_Idx[(idx % 8) + 1]
BitTest(data, idx) == (data[(idx \div 8) + 1] \div Bit(idx)) % 2 = 1
\* Mutant: a bit that is set is flipped.
BitSetFlips(data, idx) ==
  [data EXCEPT ![(idx \div 8) + 1] = IF BitTest(data, idx) THEN @ - Bit(idx) ELSE @ + Bit(idx)]

BitSetOne(data, idx) ==
  [data EXCEPT ![(idx \div 8) + 1] = IF BitTest(data, idx) THEN @ ELSE @ + Bit(idx)]
\* BitSet(): N / 8 bytes of zero.
NoBits == [i \in 1..(FilterBits \div 8) |-> 0]

BloomInsert(data, key) ==
  LET set(d, i) == BitSetOne(d, Hashes[key][i] % FilterBits)
  IN  set(set(set(set(data, 1), 2), 3), 4)
IsMatch(data, key) == \A i \in 1..4 : BitTest(data, Hashes[key][i] % FilterBits)

-----------------------------------------------------------------------------
(* Memtable.                                                               *)

kTypeDeletion == 0
kTypeValue == 1
kDeleteCode == 6      \* StatusCode::kDelete

\* A blank of the computed size, then every field written in place.  The width of the
\* sequence number is taken from the size of the value.
SetRecord(key, value, n) ==
  LET widthK == varintLength[Len(key)]
      widthV == varintLength[Len(value)]
      widthN == varintLength[Len(value)]
      blank == format32_vec(widthK) \o key \o Spaces(widthN) \o Spaces(1)
               \o format32_vec(widthV) \o value
      k == encodeVarint32(Len(key))
      q == encodeVarint64(n)
      typeAt == Len(k) + Len(key) + Len(q)
      numbered == Overwrite(Overwrite(blank, 0, k), Len(k) + Len(key), q)
      typed == Overwrite(numbered, typeAt, formatEncodeFixed8(kTypeValue))
  IN  Overwrite(typed, typeAt + 1, encodeVarint32(Len(value)))

DeleteRecord(key, n) ==
  LET blank == format32_vec(varintLength[Len(key)]) \o key \o Spaces(varintLength[n])
               \o Spaces(1)
      k == encodeVarint32(Len(key))
      q == encodeVarint32(n)
      numbered == Overwrite(Overwrite(blank, 0, k), Len(k) + Len(key), q)
  IN  Overwrite(numbered, Len(k) + Len(key) + Len(q), formatEncodeFixed8(kDeleteCode))

\* The key_size and key that a lookup compares with.
Probe(key) == Overwrite(format32_vec(varintLength[Len(key)]) \o key, 0,
                        encodeVarint32(Len(key)))

\* getMemTableViewKeyView: the key of a record of either kind.
KeyView(rec) == LET k == getVarint32Ptr(rec, 0, 5) IN View(rec, k.end, k.value)

\* std::string_view's operator<, on bytes.
Less(a, b) == \E i \in 1..Len(b) : /\ \A h \in 1..(i - 1) : h <= Len(a) /\ a[h] = b[h]
                                   /\ i > Len(a) \/ a[i] < b[i]
Comparator(lef, ref) == Less(KeyView(lef), KeyView(ref))
Equivalent(lef, ref) == ~Comparator(lef, ref) /\ ~Comparator(ref, lef)

\* btree_set::insert keeps the record that is there.
Insert(map, rec) == IF \E r \in map : Equivalent(r, rec) THEN map ELSE map \cup {rec}

NotFound == [code |-> "kNotFound", value |-> <<>>]

\* Memtable::Get.
MemtableGet(map, data, key) ==
  LET found == {r \in map : Equivalent(r, Probe(key))} IN
    IF ~IsMatch(data, key) \/ found = {} THEN NotFound
    ELSE LET r == CHOOSE r \in found : TRUE
             k == getVarint32Ptr(r, 0, 5)
             q == getVarint64Ptr(r, k.end + k.value, k.end + k.value + 9)
             v == getVarint32Ptr(r, q.end + 1, q.end + 6)
         IN  IF formatDecodeFixed8(r, q.end) = kTypeDeletion
             THEN [code |-> "kDelete", value |-> <<>>]
             ELSE [code |-> "kOk", value |-> View(r, v.end, v.value)]

-----------------------------------------------------------------------------
(* CompWorker::Run writes a table to its file.                             *)

formatMemTableToSSTable(r) ==
  LET k == getVarint32Ptr(r, 0, 5)
      keyEnd == k.end + k.value
      q == getVarint64Ptr(r, keyEnd, keyEnd + 9)
      v == getVarint32Ptr(r, q.end + 1, q.end + 6)
  IN  [key_view |-> View(r, k.end, k.value), value_view |-> View(r, v.end, v.value),
       isExist |-> formatDecodeFixed8(r, q.end) # 0]

\* The same, but for a record that ends with its key.
formatMemTableToSSTableStr(r) ==
  LET k == getVarint32Ptr(r, 0, 5) IN
    IF k.end + k.value = Len(r)
    THEN [key_view |-> View(r, k.end, k.value), value_view |-> <<>>, isExist |-> FALSE]
    ELSE formatMemTableToSSTable(r)

\* Mutant: the value's size is not written.
RowWithoutSize(row) ==
  format32_vec(varintLength[Len(row.key_view)]) \o row.key_view \o row.value_view

\* | key_size | key | value_size | value |, or the key alone.
RowBytes(row) ==
  LET key == encodeVarint32(Len(row.key_view)) \o row.key_view
  IN  IF row.isExist THEN key \o encodeVarint32(Len(row.value_view)) \o row.value_view
      ELSE key

\* The meta data in front of the rows.  The blank leaves the width of the number of keys
\* for it, but that width is written, one byte: from 128 keys on a blank stays behind the
\* filter's size, where the reader expects the filter.
HeaderBytes(lev, count, data) ==
  encodeVarint32(Version) \o encodeVarint64(CreateTime) \o encodeVarint32(lev)
  \o encodeVarint32(0) \o encodeVarint32(varintLength[count]) \o encodeVarint64(Seed)
  \o encodeVarint32(Len(data)) \o Spaces(varintLength[count] - 1) \o data

\* The records in the order of the btree_set.
InOrder(map) ==
  [i \in 1..Cardinality(map) |->
     CHOOSE r \in map : Cardinality({s \in map : Comparator(s, r)}) = i - 1]

Rows(map) ==
  LET sorted == InOrder(map)
  IN  [i \in DOMAIN sorted |-> formatMemTableToSSTableStr(sorted[i])]

TableFile(map, data, lev) ==
  LET rows == Rows(map) IN
    HeaderBytes(lev, Len(rows), data) \o FlattenSeq([i \in DOMAIN rows |-> RowBytes(rows[i])])

-----------------------------------------------------------------------------
(* MemTable_view.                                                          *)

\* Init's loop over the rows from p on: the string_views inserted into memMapView_.
ViewRows(m, p) ==
  LET more(q) == q \in 0..(Len(m) - 1)
      from[q \in 0..(Len(m) - 1)] ==
        LET k == getVarint32Ptr(m, q, q + 5)
            v == getVarint32Ptr(m, k.end + k.value, k.end + k.value + 5)
            row == IF v.end = Null THEN View(m, k.end, k.value)
                   ELSE View(m, q, v.end + v.value - q)
            next == IF v.end = Null THEN k.end ELSE v.end + v.value
        IN  <<row>> \o (IF next > q /\ more(next) THEN from[next] ELSE <<>>)
  IN  IF more(p) THEN from[p] ELSE <<>>

\* MemTable_view::Get.
ViewGet(rows, data, key) ==
  LET found == {i \in DOMAIN rows : Equivalent(rows[i], Probe(key))} IN
    IF ~IsMatch(data, key) \/ found = {} THEN NotFound
    ELSE LET r == rows[CHOOSE i \in found : TRUE]
             k == getVarint32Ptr(r, 0, 5)
             v == getVarint32Ptr(r, k.end + k.value, k.end + k.value + 5)
         IN  IF Len(r) = Len(Probe(key)) THEN [code |-> "kDelete", value |-> <<>>]
             ELSE [code |-> "kOk", value |-> View(r, v.end, v.value)]

\* The field behind f, read with a limit that many bytes behind its start.
Behind32(m, f, limit) == getVarint32Ptr(m, f.end, f.end + limit)
Behind64(m, f, limit) == getVarint64Ptr(m, f.end, f.end + limit)

\* The first fields of the meta data, and where they end.
MetaFields(m) ==
  LET version == getVarint32Ptr(m, 0, 5)
      created == Behind64(m, version, 9)
      cur_lev == Behind32(m, created, 5)
      cur_number == Behind32(m, cur_lev, 5)
      all_key_size == Behind32(m, cur_number, 5)
  IN  [level |-> cur_lev.value, keys |-> all_key_size.value, end |-> all_key_size.end]

\* MemTable_view::Init, for the view of level lev: what it ends in.  The seed is read with
\* the limit data + 5, which the fields in front of it have passed: no byte is looked at,
\* the result is Null, and the next read goes through it.  What the loop put into the view
\* has to be as many rows as the header says.
ViewInit(m, lev) ==
  LET meta == MetaFields(m)
      seed == getVarint64Ptr(m, meta.end, 5)
      size == Behind32(m, seed, 4)
      rows == ViewRows(m, size.end + size.value)
  IN  IF meta.level # lev THEN "level"
      ELSE IF seed.end = Null THEN "null"
      ELSE IF meta.keys # Cardinality({KeyView(rows[i]) : i \in DOMAIN rows})
      THEN "key_count" ELSE "up"

-----------------------------------------------------------------------------
(* DB::Set, DB::Delete and the flush of a full table.                      *)

NoWrite == [op |-> "none", key |-> <<>>, value |-> <<>>]

RecordInit ==
  /\ memMap = {} /\ filter = NoBits /\ level = 0 /\ files = <<>>
  /\ number = 0
  /\ log = [request |-> NoWrite, record |-> [crc |-> <<>>, text |-> <<>>]]
  /\ writes = << [k \in Keys |-> {}] >>

\* What both do: the log record, the next number, the record into map and filter.
Write(request, n, logRecord, rec) ==
  /\ number < MaxOps /\ number' = number + 1
  /\ log' = [request |-> request, record |-> logRecord]
  /\ filter' = BloomInsert(filter, request.key)
  /\ memMap' = Insert(memMap, rec)
  /\ writes' = [writes EXCEPT ![level + 1][request.key] =
                  @ \cup {[op |-> request.op, value |-> request.value, number |-> n]}]
  /\ UNCHANGED <<level, files>>

Set(k, v, n) ==
  Write([op |-> "set", key |-> k, value |-> v], n, SetContextWalLogFormat(k, v, number),
        SetRecord(k, v, n))

Delete(k, n) ==
  Write([op |-> "delete", key |-> k, value |-> <<>>], n, DeleteContextWalLogFormat(k, number),
        DeleteRecord(k, n))

\* The worker rotates the memtable and a CompWorker writes it.
WriteTable ==
  /\ memMap # {} /\ level < MaxLevel
  /\ files' = Append(files, TableFile(memMap, filter, level))
  /\ memMap' = {} /\ filter' = NoBits /\ level' = level + 1
  /\ writes' = Append(writes, [k \in Keys |-> {}])
  /\ UNCHANGED <<number, log>>

RecordNext ==
  \/ \E k \in Keys, v \in Values, n \in Numbers : Set(k, v, n)
  \/ \E k \in Keys, n \in Numbers : Delete(k, n)
  \/ WriteTable

RecordSpec == RecordInit /\ [][RecordNext]_recordVars

-----------------------------------------------------------------------------
(* Properties.                                                             *)

\* The number of the write is as wide as the size of its value: SetRecord leaves for the
\* number the width of the size.
HasRoom(w) == w.op = "set" => varintLength[w.number] = varintLength[Len(w.value)]

\* An answer for a key with the writes ws: the key is found if and only if it was written,
\* and what is found is one of the writes, a value of its length and, if the number had
\* room, its very bytes.  Which of several writes is found is not said here, nor what code
\* stands for a deletion.
ReadsBack(answer, ws) ==
  IF ws = {} THEN answer.code = "kNotFound"
  ELSE /\ answer.code # "kNotFound"
       /\ \E w \in ws : /\ Len(answer.value) = Len(w.value)
                        /\ HasRoom(w) => answer.value = w.value
                        /\ w.op = "set" => answer.code = "kOk"

\* A memtable answers every Get with one of the key's writes, and with kNotFound when there
\* was none, whatever bits other keys have set in the Bloom filter and however wide the
\* varints of other records are.
GetReadsBack ==
  \A k \in Keys : ReadsBack(MemtableGet(memMap, filter, k), writes[level + 1][k])

\* The value that was set comes back, whatever its request's number is.
SetReadsBack ==
  \A k \in Keys : \A w \in writes[level + 1][k] :
    w.op = "set" /\ writes[level + 1][k] = {w} =>
      MemtableGet(memMap, filter, k) = [code |-> "kOk", value |-> w.value]

\* The meta data of a file, by its description: where the rows begin, the filter and the
\* level.  This is the format that CompWorker::Run writes, not how MemTable_view::Init reads
\* it (ViewInit).
FileHeader(m) ==
  LET meta == MetaFields(m)
      seed == getVarint64Ptr(m, meta.end, Len(m))
      size == Behind32(m, seed, 4)
  IN  [end |-> size.end + size.value, filter |-> View(m, size.end, size.value),
       level |-> meta.level]

\* The file that CompWorker::Run writes keeps the table: its meta data says the level, and
\* behind the copy of the Bloom filter the rows hold, for every key, what ReadsBack asks of
\* the memtable.  For tables of fewer than 128 keys; from there on a blank is left in front
\* of the filter (HeaderBytes).  A statement about the writer and the format: Init does not
\* get to the rows (ViewIsBuilt).
FileReadsBack ==
  \A l \in DOMAIN files :
    Cardinality({k \in Keys : writes[l][k] # {}}) < 128 =>
      LET header == FileHeader(files[l])
          rows == ViewRows(files[l], header.end)
      IN  /\ header.level = l - 1
          /\ \A k \in Keys : ReadsBack(ViewGet(rows, header.filter, k), writes[l][k])

\* MemTable_view::Init builds a view from every file: no null pointer, and as many rows as
\* the header says.
ViewIsBuilt == \A l \in DOMAIN files : ViewInit(files[l], l - 1) = "up"

\* A log record stands for one request: no other Set or Delete of the same number is
\* written as the same bytes.
LogNamesRequest ==
  log.request = NoWrite \/
    LET n == number - 1
        same(r, key, value) == r.text = log.record.text =>
                                 key = log.request.key /\ value = log.request.value
    IN  \A k \in Keys :
          /\ \A v \in Values : same(SetContextWalLogFormat(k, v, n), k, v)
          /\ same(DeleteContextWalLogFormat(k, n), k, <<>>)

\* Format16PrefixStr finds the longest prefix that all keys, and all values, of a table
\* share.
PrefixIsLongest ==
  memMap # {} =>
    LET rows == Rows(memMap)
        result == Format16PrefixStr(rows)
        longest(prefix, strings) ==
          /\ \A i \in DOMAIN strings : IsPrefix(prefix, strings[i])
          /\ ~ \A i \in DOMAIN strings :
                 /\ Len(strings[i]) > Len(prefix)
                 /\ strings[i][Len(prefix) + 1] = strings[1][Len(prefix) + 1]
    IN  /\ longest(result.key_view, [i \in DOMAIN rows |-> rows[i].key_view])
        /\ longest(result.value_view, [i \in DOMAIN rows |-> rows[i].value_view])

=============================================================================
