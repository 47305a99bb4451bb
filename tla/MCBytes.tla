------------------------------- MODULE MCBytes -------------------------------
(***************************************************************************)
(* The byte-level code in one model: record formats and SSTable files,     *)
(* string hashes, the CRC, the streaming hash and the append file.  They   *)
(* share no state.  A behaviour belongs to the part that its initial state *)
(* names, so that the states of the whole are the sum of the parts' and    *)
(* not their product.                                                      *)
(***************************************************************************)
EXTENDS MCRecords, AppendFile, XXHash64, Crc32, HashReads

VARIABLE part     \* whose steps these are

Parts == {"records", "hash", "crc", "xxhash", "file"}

\* The variables of the other parts do not change.
Others(s) ==
    /\ s # "records" => UNCHANGED recordVars
    /\ s # "hash" => UNCHANGED hashVars
    /\ s # "crc" => UNCHANGED crcVars
    /\ s # "xxhash" => UNCHANGED xxVars
    /\ s # "file" => UNCHANGED fileVars

BytesInit ==
    /\ part \in Parts
    /\ RecordInit /\ HashInit /\ CrcInit /\ XXInit /\ FileInit

BytesNext ==
    /\ UNCHANGED part
    /\ \/ part = "records" /\ RecordNext /\ Others("records")
       \/ part = "hash" /\ HashNext /\ Others("hash")
       \/ part = "crc" /\ CrcNext /\ Others("crc")
       \/ part = "xxhash" /\ XXNext /\ Others("xxhash")
       \/ part = "file" /\ FileNext /\ Others("file")

bytesVars == <<part, recordVars, hashVars, crcVars, xxVars, fileVars>>

BytesSpec == BytesInit /\ [][BytesNext]_bytesVars
=============================================================================
