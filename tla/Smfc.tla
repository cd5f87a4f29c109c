-------------------------------- MODULE Smfc --------------------------------
(***************************************************************************)
(* The code generator smfc: main, codegen, the generators of the three     *)
(* languages, and the schema files it is run on again and again as they    *)
(* are extended.                                                           *)
(*                                                                         *)
(* Generated code is modelled by what decides where a call goes: a service *)
(* class is its list of handles and the cases of its switch, a client      *)
(* class the request id it sends for each method.  A method is named by    *)
(* its signature, name:in:out, and crc32 is a constant.                    *)
(***************************************************************************)
EXTENDS Naturals, Sequences, FiniteSets, SequencesExt

CONSTANTS
  Name,      \* names of services
  Sig,       \* signatures of methods
  Crc,       \* crc32 of names and signatures
  Xor(_, _), \* the operator ^
  Words,     \* values of --language, split at the commas
  NoCode,    \* no generated file, or an incomplete one
  MaxEdits   \* bound: edits of the schema

Language == {"cpp", "go", "python"}

ASSUME SmfcAssumption ==
  /\ Crc \in [Name \cup Sig -> Nat]
  /\ Words \subseteq Seq(STRING)
  /\ MaxEdits \in Nat

VARIABLES
  schema,   \* parser_->services_, in the order of the file
  edits,    \* edits of the schema so far
  phase,    \* what smfc is doing
  left,     \* languages still to be generated
  asked,    \* languages of this run
  status,   \* how the last run ended
  files,    \* the output file of each language
  inCwd,    \* output_path is the working directory
  haveDir   \* output_path/<namespace> exists

genVars == <<schema, edits, phase, left, asked, status, files, inCwd, haveDir>>

-----------------------------------------------------------------------------
(* The generated code.                                                     *)

\* Mutant: the methods are numbered.
RequestIdByPosition(sv, i) == Xor(Crc[sv.name], i)

\* smf_service::service_id() ^ smf_method::method_id()
RequestId(sv, i) == Xor(Crc[sv.name], Crc[sv.methods[i]])

\* handles_ and the switch of method_for_request_id.
ServiceClass(sv) ==
  [service |-> sv.name, handles |-> sv.methods,
   cases |-> [i \in DOMAIN sv.methods |-> RequestId(sv, i)]]

\* The set_request_id of each method.
ClientClass(sv) ==
  {[service |-> sv.name, method |-> sv.methods[i], id |-> RequestId(sv, i)] :
     i \in DOMAIN sv.methods}

\* A loop over s that keeps the elements at the positions K.
Keep(s, K) ==
  LET kept[i \in 0 .. Len(s)] ==
        IF i = 0 THEN <<>>
        ELSE IF i \in K THEN Append(kept[i - 1], s[i]) ELSE kept[i - 1]
  IN kept[Len(s)]

\* The services of the file itself; those of included files are marked generated.
Services(sch) == Keep(sch, {k \in DOMAIN sch : ~sch[k].included})

CppCode(svs) ==
  [services |-> [k \in DOMAIN svs |-> ServiceClass(svs[k])],
   clients |-> UNION {ClientClass(svs[k]) : k \in DOMAIN svs}]

GoCode(svs) == CppCode(svs)

\* Python has clients only.
PythonCode(svs) ==
  [services |-> <<>>, clients |-> UNION {ClientClass(svs[k]) : k \in DOMAIN svs}]

Code(l, sch) ==
  CASE l = "cpp"    -> CppCode(Services(sch))
    [] l = "go"     -> GoCode(Services(sch))
    [] l = "python" -> PythonCode(Services(sch))

-----------------------------------------------------------------------------

Init ==
  /\ schema = <<>> /\ edits = 0
  /\ phase = "idle" /\ left = <<>> /\ asked = {} /\ status = "none"
  /\ files = [l \in Language |-> NoCode]
  /\ inCwd \in BOOLEAN /\ haveDir \in BOOLEAN

(* The schema is extended; flatbuffers refuses two services or two methods   *)
(* of one name.                                                            *)
Edited ==
  /\ phase = "idle" /\ edits < MaxEdits
  /\ edits' = edits + 1 /\ status' = "none"
  /\ UNCHANGED <<phase, left, asked, files, inCwd, haveDir>>

AddService(n, m, included) ==
  /\ Edited
  /\ \A k \in DOMAIN schema : schema[k].name # n
  /\ schema' = Append(schema, [name |-> n, methods |-> <<m>>, included |-> included])

AddMethod(k, i, m) ==
  /\ Edited
  /\ i \in 1 .. Len(schema[k].methods) + 1
  /\ m \notin ToSet(schema[k].methods)
  /\ schema' = [schema EXCEPT ![k].methods = InsertAt(@, i, m)]

\* Mutant: a language nobody knows is kept.
SplitLangsKeepsAll(ws) == ws

\* split_langs skips the languages it does not know.
SplitLangs(ws) == Keep(ws, {i \in DOMAIN ws : ws[i] \in Language})

End(s) == phase' = "idle" /\ left' = <<>> /\ status' = s

\* main up to the constructor of codegen: the flags are validated, and no
\* language at all is fatal.
Main(ws, valid) ==
  /\ phase = "idle"
  /\ LET ls == SplitLangs(ws)
     IN /\ asked' = ToSet(ls)
        /\ IF ~valid \/ ls = <<>>
           THEN End("failed")
           ELSE phase' = "parse" /\ left' = ls /\ status' = "none"
  /\ UNCHANGED <<schema, edits, files, inCwd, haveDir>>

\* codegen::parse; the second call, from gen, finds parsed_ set and no error.
Parse(ok) ==
  /\ phase = "parse"
  /\ IF ok THEN phase' = "gen" /\ UNCHANGED <<left, status>> ELSE End("failed")
  /\ UNCHANGED <<schema, edits, asked, files, inCwd, haveDir>>

\* gen() of the go and python generators creates the directories of the
\* namespace below the working directory; the file goes below output_path.
MakesDir(l) == l \in {"go", "python"} /\ inCwd

\* Mutant: gen() goes on with the next language.
GenGoesOn(saved) ==
  /\ phase = "gen" /\ left # <<>>
  /\ LET l == Head(left)
     IN /\ haveDir' = (haveDir \/ MakesDir(l))
        /\ files' = [files EXCEPT ![l] = IF saved /\ (l = "cpp" \/ haveDir')
                                         THEN Code(l, schema) ELSE NoCode]
        /\ left' = Tail(left) /\ UNCHANGED <<phase, status>>
  /\ UNCHANGED <<schema, edits, asked, inCwd>>

\* One turn of the loop in codegen::gen; save_conents_to_file removes the old
\* file first.
Gen(saved) ==
  /\ phase = "gen" /\ left # <<>>
  /\ LET l == Head(left)
     IN /\ haveDir' = (haveDir \/ MakesDir(l))
        /\ IF saved /\ (l = "cpp" \/ haveDir')
           THEN /\ files' = [files EXCEPT ![l] = Code(l, schema)]
                /\ left' = Tail(left) /\ UNCHANGED <<phase, status>>
           ELSE /\ files' = [files EXCEPT ![l] = NoCode]
                /\ End("failed")
  /\ UNCHANGED <<schema, edits, asked, inCwd>>

\* gen() and main return.
Return ==
  /\ phase = "gen" /\ left = <<>>
  /\ End("ok")
  /\ UNCHANGED <<schema, edits, asked, files, inCwd, haveDir>>

Smfc ==
  \/ \E n \in Name, m \in Sig, b \in BOOLEAN : AddService(n, m, b)
  \/ \E k \in DOMAIN schema, i \in 1 .. MaxEdits, m \in Sig : AddMethod(k, i, m)
  \/ \E ws \in Words, b \in BOOLEAN : Main(ws, b)
  \/ \E b \in BOOLEAN : Parse(b) \/ Gen(b)
  \/ Return
=============================================================================
