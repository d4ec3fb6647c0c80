-------------------------- MODULE Resolver --------------------------
(* DobbySymbolResolver: the address of a symbol from the dynamic linker or, *)
(* failing that, from the symbol tables in the files of the modules that    *)
(* /proc/self/maps lists.                                                   *)
(*                                                                          *)
(* A file is [v0, o0, phdr, symtab, dynsym]: address and file offset of the *)
(* first PT_LOAD, whether a PT_PHDR precedes it, and the two tables, each a *)
(* sequence of <<name, st_value>> (empty when the section is stripped).     *)
(* A mapping of the process is [path, start, header]: header when it is     *)
(* readable, not writable and begins with the ELF magic number.             *)
EXTENDS Integers, Sequences, SequencesExt, FiniteSets

CONSTANTS
  PhOff,        \* e_phoff, the place of the program headers in a file
  FileMem,      \* where mmap puts a file that is read
  NotFound      \* no module: RuntimeModule{0}

NULL == 0

(* iterate_symbol_table_impl: st_value of the first entry of that name. *)
IterateSymbolTable(table, name) ==
  LET hits == {k \in DOMAIN table : table[k][1] = name}
  IN  IF hits = {} THEN NULL ELSE table[CHOOSE k \in hits : \A j \in hits : k <= j][2]

(* elf_ctx_iterate_symbol_table: .symtab, then .dynsym. *)
ElfSymbol(f, name) ==
  LET r == IterateSymbolTable(f.symtab, name)
  IN  IF r # NULL THEN r ELSE IterateSymbolTable(f.dynsym, name)

BugLoadBias(f, mem) ==        \* mutant: the file offset of the segment forgotten
  mem - f.v0

(* elf_ctx_init on a file mapped at mem: PT_PHDR decides, or the first PT_LOAD. *)
LoadBias(f, mem) ==
  IF f.phdr THEN (mem + PhOff) - (f.v0 - f.o0 + PhOff) ELSE mem - (f.v0 - f.o0)

(* GetProcessModuleMap: the mappings that begin an ELF module. *)
ProcessModuleMap(maps) == {m \in maps : m.header}

(* The lines of /proc/self/maps are in the order of the addresses. *)
First(maps) == CHOOSE m \in maps : \A n \in maps : m.start <= n.start

(* GetProcessModule: the first module whose path contains the name. *)
GetProcessModule(maps, named) ==
  LET hits == {m \in ProcessModuleMap(maps) : m.path \in named}
  IN  IF hits = {} THEN NotFound ELSE First(hits)

(* The address of name in the module m, or NULL; a file that cannot be opened *)
(* has no symbols.                                                            *)
InModule(m, files, name) ==
  IF m = NotFound \/ m.path \notin DOMAIN files THEN NULL
  ELSE LET r == ElfSymbol(files[m.path], name)
       IN  IF r = NULL THEN NULL
           ELSE r + m.start - (FileMem - LoadBias(files[m.path], FileMem))

(* resolve_elf_internal_symbol: the named module, then every module in turn. *)
ResolveElfInternalSymbol(maps, files, named, name) ==
  LET r == InModule(GetProcessModule(maps, named), files, name)
      hits == {m \in ProcessModuleMap(maps) : InModule(m, files, name) # NULL}
  IN  IF r # NULL THEN r ELSE IF hits = {} THEN NULL ELSE InModule(First(hits), files, name)

(* dlsym is the dynamic linker's answer for RTLD_DEFAULT. *)
DobbySymbolResolver(dlsym, maps, files, named, name) ==
  IF dlsym # NULL THEN dlsym ELSE ResolveElfInternalSymbol(maps, files, named, name)
=============================================================================
