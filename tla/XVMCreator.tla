----------------------------- MODULE XVMCreator -----------------------------
(***************************************************************************)
(* The XVM instance creator for ahead-of-time compiled contracts:          *)
(* src/bcs/contract/xvm/aot_creator.go and, on darwin, resolveSymbols in   *)
(* export_resolver_darwin.go.                                              *)
(*                                                                         *)
(* newXVMCreator builds the creator once; the code manager (not in this    *)
(* repository) then calls CompileCode to turn a contract's wasm into a     *)
(* native library at the contract's output path, and MakeExecCode to load  *)
(* that library and tell whether it is a legacy one.  Each call is one     *)
(* step over the outcomes of its file and process calls; a failure that    *)
(* changes nothing is a stutter.                                           *)
(*                                                                         *)
(* A symbol name is a sequence of name parts: the compiler (xvm/compile,   *)
(* not in this repository) exports wasm function m as <<ExportPrefix, m>>  *)
(* and has internal symbols <<s>>.  strings.HasPrefix on a name is         *)
(* IsPrefix on the sequence.                                               *)
(***************************************************************************)
EXTENDS Integers, Sequences, SequencesExt

CONSTANTS
    Contracts,      \* contract names
    Exports,        \* Exports[c]: the wasm functions contract c exports
    Initialize,     \* the method "initialize" (currentContractMethodInitialize)
    ExportPrefix,   \* the name part "_export_" (exportSymbolPrefix)
    Internal,       \* names of symbols the compiler adds
    OptLevels,      \* XVM.OptLevel values a configuration may hold
    NoConfig,       \* creatorConfig.VMConfig is nil
    MaxLeaks        \* bound: temporary directories left behind

VARIABLES
    creator,    \* "none" before newXVMCreator, then "ready" or "failed"
    vmconfig,   \* x.vmconfig's OptLevel, or NoConfig
    disk,       \* disk[c]: the file at c's output path
    code,       \* code[c]: the last code MakeExecCode returned for c
    leaked,     \* temporary directories RemoveAll failed to remove
    panicked    \* the process died of a nil dereference

vars == <<creator, vmconfig, disk, code, leaked, panicked>>

\* the symbol table of the library compiled from contract c
Library(c) ==
    { <<ExportPrefix, m>> : m \in Exports[c] } \cup { <<s>> : s \in Internal }

\* resolveSymbols (16-33): the keys of the map it returns, the names that
\* start with the export prefix, kept whole
resolveSymbols(syms) == { s \in syms : IsPrefix(<<ExportPrefix>>, s) }

\* isLegacyAOT (155-166): legacy unless the map has the key "initialize"
isLegacyAOT(syms) == <<Initialize>> \notin resolveSymbols(syms)

Init ==
    /\ creator = "none"
    /\ vmconfig = NoConfig
    /\ disk = [c \in Contracts |-> "absent"]
    /\ code = [c \in Contracts |-> "none"]
    /\ leaked = 0
    /\ panicked = FALSE

\* newXVMCreator (46-68): lookupWasm2c (33-44), the OptLevel check of a
\* non-nil VMConfig and newCodeManager; any of them may fail
newXVMCreator ==
    /\ creator = "none"
    /\ \E cfg \in {NoConfig} \cup OptLevels :
         /\ vmconfig' = cfg
         /\ creator' \in IF cfg # NoConfig /\ (cfg < 0 \/ cfg > 3)
                           THEN {"failed"} ELSE {"ready", "failed"}
    /\ UNCHANGED <<disk, code, leaked, panicked>>

\* CompileCode(buf, outputPath) (78-101).  After TempDir (79) the deferred
\* RemoveAll, whose error is dropped, may leave the directory.  The wasm
\* file is written (85), x.vmconfig is dereferenced (94), the library is
\* compiled (96) and cpfile (70-76) copies it: WriteFile truncates the
\* output before writing, so a failed write leaves a partial file.
CompileCode(c) ==
    /\ creator = "ready" /\ ~panicked
    /\ \E removed \in BOOLEAN :
         /\ removed \/ leaked < MaxLeaks
         /\ leaked' = IF removed THEN leaked ELSE leaked + 1
    \* the wasm write (85), the compile (96) or cpfile's read (71) fails,
    \* all after the defer; a failed TempDir (79) changes nothing: a stutter
    /\ \/ UNCHANGED <<disk, panicked>>
       \/ /\ vmconfig = NoConfig
          /\ panicked' = TRUE
          /\ UNCHANGED disk
       \/ /\ vmconfig # NoConfig
          /\ disk' \in { [disk EXCEPT ![c] = f] : f \in {"partial", "lib"} }
          /\ UNCHANGED panicked
    /\ UNCHANGED <<creator, vmconfig, code>>

\* MakeExecCode(libpath) (107-139): NewAOTCode loads only a whole library;
\* isLegacyAOT reads its symbols back (resolveSymbols, darwin)
MakeExecCode(c) ==
    /\ creator = "ready" /\ ~panicked
    /\ disk[c] = "lib"
    /\ code' = [code EXCEPT ![c] = IF isLegacyAOT(Library(c)) THEN "legacy" ELSE "current"]
    /\ UNCHANGED <<creator, vmconfig, disk, leaked, panicked>>

Next ==
    \/ newXVMCreator
    \/ \E c \in Contracts : CompileCode(c) \/ MakeExecCode(c)

Spec == Init /\ [][Next]_vars

-----------------------------------------------------------------------------
(* Properties *)

TypeOK ==
    /\ creator \in {"none", "ready", "failed"}
    /\ vmconfig \in {NoConfig} \cup OptLevels
    /\ disk \in [Contracts -> {"absent", "partial", "lib"}]
    /\ code \in [Contracts -> {"none", "legacy", "current"}]
    /\ leaked \in 0..MaxLeaks
    /\ panicked \in BOOLEAN

\* (currentContractMethodInitialize, 21; isLegacyAOT, 161) a library loaded
\* by MakeExecCode is flagged legacy exactly when its contract does not
\* export the current ABI's initialize method
LegacyFlagMatchesExports ==
    \A c \in Contracts :
        code[c] # "none" => (code[c] = "legacy" <=> Initialize \notin Exports[c])

\* CompileCode never dereferences a nil VMConfig, which newXVMCreator
\* accepts (55-61)
NoNilConfigPanic == ~panicked
=============================================================================
