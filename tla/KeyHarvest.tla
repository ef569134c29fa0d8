----------------------------- MODULE KeyHarvest -----------------------------
(* How StorageInfo comes by the keys of the contract's mappings when the    *)
(* storage service starts: it imports output/fact_keys.json, and where that *)
(* fails it harvests the parameters of the stored transactions (PagedReader)*)
(* and exports them.  There is one such file, whichever contract a service  *)
(* is for, and nothing keeps two services from writing it at once: each     *)
(* truncates it and writes on at its own place.  The file is modelled as    *)
(* two pieces, for the many a dump is written in.  The keys a transaction   *)
(* yields are told by its hash.                                             *)
EXTENDS PagedReader

CONSTANTS Succeeded,   \* transactions with is_error = 0, input and a method that
                       \* writes a mapping at a parameter
          PairHashes,  \* those that yield a pair, the keys of a two-level mapping
          BytesHashes, \* those that yield a value of type bytes
          MaxStarts    \* bound: starts of the service

ASSUME HarvestAssumption == /\ Succeeded \subseteq Hashes
                            /\ PairHashes \subseteq Hashes /\ BytesHashes \subseteq Hashes
                            /\ MaxStarts \in Nat

VARIABLES svc,     \* where the service stands: "off", "import", "harvest", "open",
                   \* "dump", "serving"
          fact,    \* fact_keys
          asOf,    \* history: rows stored when the harvest began that fact is from;
          whose,   \* whose fact is: the own contract's ("self"), an "other" one's,
                   \* or "mixed" of two exports
          file,    \* the pieces of fact_keys.json
          writer,  \* who is writing it: this service, and a rival with the same file
          starts

harvestVars == <<svc, fact, asOf, whose, file, writer, starts>>
allVars     == <<head, mined, stored, pc, lo, hi, page, seen, total, before,
                 svc, fact, asOf, whose, file, writer, starts>>

Parts   == {"head", "tail"}
Writers == {"service", "rival"}
Pieces  == [by : Writers \cup {"none"}, whose : {"self", "other"},
            keys : SUBSET Hashes, asOf : SUBSET Hashes]
NoPiece == [by |-> "none", whose |-> "self", keys |-> {}, asOf |-> {}]
Empty   == [p \in Parts |-> NoPiece]
\* at: the piece to write next; left: the keys that are not written yet.
Dumps   == [at : Parts \cup {"closed"}, whose : {"self", "other"},
            left : SUBSET Hashes, asOf : SUBSET Hashes]
Closed  == [at |-> "closed", whose |-> "self", left |-> {}, asOf |-> {}]

FileKeys  == file["head"].keys \cup file["tail"].keys
FileWhose == IF file["head"].by = file["tail"].by THEN file["head"].whose ELSE "mixed"

\* import_fact_keys_from_json: a file in which a piece is missing does not parse,
\* and a pair comes back as a list, which no set takes.
Importable == /\ \A p \in Parts : file[p].by # "none"
              /\ FileKeys \cap PairHashes = {}

\* What may become of the file when w writes a piece: where it holds something
\* of the other's the pieces may fit together, or spoil one another.
Outcomes(w, p, keys) ==
  LET piece == [by |-> w, whose |-> writer[w].whose, keys |-> keys, asOf |-> writer[w].asOf]
  IN  {[file EXCEPT ![p] = piece]}
        \cup IF \A q \in Parts : file[q].by \in {w, "none"} THEN {}
             ELSE {[file EXCEPT ![p] = NoPiece], [Empty EXCEPT ![p] = piece]}

HarvestInit == /\ Init /\ svc = "off" /\ fact = {} /\ asOf = {} /\ whose = "self"
               /\ file = Empty /\ writer = [w \in Writers |-> Closed] /\ starts = 0

\* The reader is gone with its local variables.
ReadOver == /\ pc' = "idle" /\ lo' = 0 /\ hi' = 0 /\ page' = 1
            /\ seen' = {} /\ total' = 0 /\ before' = {}
            /\ UNCHANGED <<head, mined, stored>>

----------------------------------------------------------------------------
Start == /\ svc = "off" /\ pc # "reading" /\ starts < MaxStarts
         /\ svc' = "import" /\ starts' = starts + 1
         /\ UNCHANGED <<vars, fact, asOf, whose, file, writer>>

\* Mutant: a file that cannot be parsed counts as one with the keys it shows.
Import_Lenient == /\ svc = "import" /\ FileKeys \cap PairHashes = {}
                  /\ svc' = "serving"
                  /\ fact' = FileKeys /\ asOf' = file["head"].asOf /\ whose' = file["head"].whose
                  /\ UNCHANGED <<vars, file, writer, starts>>

\* The contract named in the file's metadata is logged and not compared.
Import == /\ svc = "import" /\ Importable
          /\ svc' = "serving"
          /\ fact' = FileKeys /\ asOf' = file["head"].asOf /\ whose' = FileWhose
          /\ UNCHANGED <<vars, file, writer, starts>>

ImportFails == /\ svc = "import" /\ ~Importable
               /\ LookUpLatest
               /\ svc' = "harvest"
               /\ UNCHANGED <<fact, asOf, whose, file, writer, starts>>

CreationBlockKnown == /\ svc = "harvest" /\ BeginHarvest
                      /\ UNCHANGED harvestVars

HarvestStep == /\ svc = "harvest" /\ ReadPage
               /\ UNCHANGED harvestVars

Harvested == /\ svc = "harvest" /\ pc = "done"
             /\ fact' = seen \cap Succeeded /\ asOf' = before /\ whose' = "self"
             /\ svc' = "open"
             /\ ReadOver
             /\ UNCHANGED <<file, writer, starts>>

\* export_fact_keys_to_json: opening truncates the file; a failure is logged.
OpenFile == /\ svc = "open"
            /\ svc' = "dump" /\ file' = Empty
            /\ writer' = [writer EXCEPT !["service"] =
                            [at |-> "head", whose |-> "self", left |-> fact, asOf |-> asOf]]
            /\ UNCHANGED <<vars, fact, asOf, whose, starts>>

OpenFails == /\ svc = "open"
             /\ svc' = "serving"
             /\ UNCHANGED <<vars, fact, asOf, whose, file, writer, starts>>

\* json.dump writes piece by piece, in no order of the keys.
WriteHead(w) == /\ writer[w].at = "head"
                /\ \E K \in SUBSET (writer[w].left \ BytesHashes) :
                     /\ file' \in Outcomes(w, "head", K)
                     /\ writer' = [writer EXCEPT ![w].at = "tail", ![w].left = @ \ K]
                /\ UNCHANGED <<vars, svc, fact, asOf, whose, starts>>

\* A key that has no JSON form stops the dump in the middle.
WriteTail(w) == /\ writer[w].at = "tail"
                /\ IF writer[w].left \cap BytesHashes = {}
                   THEN file' \in Outcomes(w, "tail", writer[w].left)
                   ELSE UNCHANGED file
                /\ writer' = [writer EXCEPT ![w] = Closed]
                /\ UNCHANGED <<vars, svc, fact, asOf, whose, starts>>

Exported == /\ svc = "dump" /\ writer["service"].at = "closed"
            /\ svc' = "serving"
            /\ UNCHANGED <<vars, fact, asOf, whose, file, writer, starts>>

\* The process is killed, serving or not, or ended by the exception of a failed
\* query, and its memory is gone.
Crash == /\ svc # "off"
         /\ svc' = "off" /\ fact' = {} /\ asOf' = {} /\ whose' = "self"
         /\ writer' = [writer EXCEPT !["service"] = Closed]
         /\ ReadOver
         /\ UNCHANGED <<file, starts>>

\* Another service opens the file: for this contract, with the keys of the rows
\* that are stored now, or for another one, whose keys are not told apart.
RivalOpens == /\ writer["rival"].at = "closed"
              /\ file' = Empty
              /\ writer' \in
                   {[writer EXCEPT !["rival"] =
                       [at |-> "head", whose |-> "self", left |-> stored \cap Succeeded,
                        asOf |-> stored]],
                    [writer EXCEPT !["rival"] =
                       [at |-> "head", whose |-> "other", left |-> {}, asOf |-> {}]]}
              /\ UNCHANGED <<vars, svc, fact, asOf, whose, starts>>

RivalDies == /\ writer["rival"].at # "closed"
             /\ writer' = [writer EXCEPT !["rival"] = Closed]
             /\ UNCHANGED <<vars, svc, fact, asOf, whose, file, starts>>

\* What happens to the table meanwhile: the transaction service writes it, and
\* others read it, who change nothing here and are let in before the first start.
TableStep == /\ \/ Write
                \/ starts = 0 /\ (BeginAll \/ Stop \/ ReadPage \/ ReadFails)
             /\ UNCHANGED harvestVars

HarvestNext == \/ Start \/ Import \/ ImportFails \/ CreationBlockKnown \/ HarvestStep
               \/ Harvested \/ OpenFile \/ OpenFails \/ Exported \/ Crash
               \/ \E w \in Writers : WriteHead(w) \/ WriteTail(w)
               \/ RivalOpens \/ RivalDies \/ TableStep

\* What the service goes on to do by itself: all but waiting for the answer to
\* the request for the creation block.
Service == \/ Import \/ ImportFails \/ HarvestStep \/ Harvested \/ OpenFile
           \/ WriteHead("service") \/ WriteTail("service") \/ Exported

HarvestSpec == HarvestInit /\ [][HarvestNext]_allVars /\ WF_allVars(Service)

----------------------------------------------------------------------------
HarvestTypeOK == /\ TypeOK
                 /\ svc \in {"off", "import", "harvest", "open", "dump", "serving"}
                 /\ fact \subseteq Hashes /\ asOf \subseteq Hashes
                 /\ whose \in {"self", "other", "mixed"}
                 /\ file \in [Parts -> Pieces] /\ writer \in [Writers -> Dumps]
                 /\ starts \in 0..MaxStarts

\* The keys the service works with, fresh or imported, are all those of the
\* transactions that were stored when they were harvested, and none that no
\* stored transaction yields: no crash in the middle of a dump, no key that stops
\* one and no other service that truncates the file or overwrites it makes it
\* start with half of them.  Nothing is said where two exports that ran at once
\* left a file that parses although it is made of both ("mixed"), or the file of
\* another contract was imported ("other"): storage_info.py tells neither.
KeysComplete == svc = "serving" /\ whose = "self" /\ Untied(stored) =>
                  /\ asOf \cap Succeeded \subseteq fact
                  /\ fact \subseteq stored \cap Succeeded

\* A start comes to serve, or ends with an exception; only the request for the
\* creation block may keep it, which waits for its answer without a timeout.
StartEnds == svc \in {"import", "harvest"} /\ pc # "asking"
               ~> svc \in {"serving", "off"} \/ pc = "asking"

=============================================================================
