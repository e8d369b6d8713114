------------------------------- MODULE Loader -------------------------------
(***************************************************************************)
(* load and start_process of userprog/process.c for one executable: the    *)
(* program headers, the pages they ask for, and the arguments on the       *)
(* stack.  Addresses are unsigned and wrap at 2^32, here AddrSpace.        *)
(***************************************************************************)
EXTENDS Vaddr, FiniteSets, SequencesExt

CONSTANTS
  AddrSpace,     (* number of addresses                                      *)
  PHYS_BASE,     (* first kernel address                                     *)
  FileSize,      (* length of the executable                                 *)
  Programs,      (* what to load: sequences of program headers and of        *)
                 (* argument lengths                                         *)
  MAX_ARGS

ASSUME LoaderAssumption ==
  /\ AddrSpace % PGSIZE = 0 /\ PHYS_BASE % PGSIZE = 0
  /\ PHYS_BASE < AddrSpace

VARIABLES
  lpc,        (* where the loader is                                         *)
  phdrs,      (* headers still to be read                                    *)
  todo,       (* what load_segment has still to do                           *)
  table,      (* pages in the supplemental page table                        *)
  seen,       (* headers of the segments loaded                              *)
  args,       (* lengths of the arguments still to be pushed                 *)
  esp,        (* the stack pointer                                           *)
  stack       (* what has been pushed: records of address, size and what     *)

loaderVars == <<lpc, phdrs, todo, table, seen, args, esp, stack>>

wrap(a) == a % AddrSpace
is_user_vaddr(a) == wrap(a) < PHYS_BASE

Idle == [ofs |-> 0, upage |-> 0, read |-> 0, zero |-> 0]

LoaderInit ==
  /\ lpc = "headers"
  /\ \E p \in Programs : phdrs = p.phdrs /\ args = p.args
  /\ todo = Idle /\ table = <<>> /\ seen = {}
  /\ esp = 0 /\ stack = <<>>

-----------------------------------------------------------------------------
(* Segments *)

NoWrap(ph) == wrap(ph.vaddr + ph.memsz) >= ph.vaddr

validate_segment(ph) ==
  /\ pg_ofs(ph.offset) = pg_ofs(ph.vaddr)
  /\ ph.offset <= FileSize
  /\ ph.memsz >= ph.filesz
  /\ ph.memsz # 0
  /\ is_user_vaddr(ph.vaddr) /\ is_user_vaddr(ph.vaddr + ph.memsz)
  /\ NoWrap(ph)
  /\ ph.vaddr >= PGSIZE

(* Faulty variant: the offset in the page is forgotten. *)
ReadBytes_whole(ph) == ph.filesz

ReadBytes(ph) == IF ph.filesz > 0 THEN pg_ofs(ph.vaddr) + ph.filesz ELSE 0

(* What load passes to load_segment. *)
Segment(ph) ==
  [ofs |-> pg_round_down(ph.offset), upage |-> pg_round_down(ph.vaddr),
   read |-> ReadBytes(ph), zero |-> pg_round_up(pg_ofs(ph.vaddr) + ph.memsz) - ReadBytes(ph)]

(* load reads the next header: a segment that is not to be loaded is       *)
(* passed over, one that cannot be makes load fail.                        *)
load_phdr(ph) ==
  /\ lpc = "headers" /\ phdrs # <<>> /\ ph = Head(phdrs)
  /\ phdrs' = Tail(phdrs)
  /\ lpc' = CASE ph.type = "other" -> "headers"
              [] ph.type = "PT_LOAD" /\ validate_segment(ph) -> "segment"
              [] OTHER -> "failed"
  /\ todo' = IF lpc' = "segment" THEN Segment(ph) ELSE todo
  /\ seen' = IF lpc' = "segment" THEN seen \cup {ph} ELSE seen
  /\ UNCHANGED <<table, args, esp, stack>>

(* load_segment, one page; a page that is in the table stays as it is      *)
(* (lazy_load_segment).                                                    *)
load_segment ==
  LET read == Min({todo.read, PGSIZE})
      zero == PGSIZE - read
      new == [page |-> pg_no(todo.upage), ofs |-> todo.ofs, read |-> read]
  IN  /\ lpc = "segment"
      /\ IF todo.read > 0 \/ todo.zero > 0
         THEN /\ table' = IF \E i \in DOMAIN table : table[i].page = new.page THEN table
                          ELSE Append(table, new)
              /\ todo' = [ofs |-> todo.ofs + read, upage |-> wrap(todo.upage + PGSIZE),
                          read |-> todo.read - read, zero |-> todo.zero - zero]
              /\ UNCHANGED lpc
         ELSE lpc' = "headers" /\ UNCHANGED <<table, todo>>
      /\ UNCHANGED <<phdrs, seen, args, esp, stack>>

-----------------------------------------------------------------------------
(* Arguments *)

(* setup_stack: one page below PHYS_BASE. *)
setup_stack ==
  /\ lpc = "headers" /\ phdrs = <<>>
  /\ lpc' = "strings"
  /\ esp' = PHYS_BASE
  /\ UNCHANGED <<phdrs, todo, table, seen, args, stack>>

Push(size, what, value) ==
  /\ esp' = esp - size
  /\ stack' = Append(stack, [at |-> esp - size, size |-> size, what |-> what, value |-> value])

Pushed(what) == SelectSeq(stack, LAMBDA e : e.what = what)

(* The next argument, with its null byte, while there is room for it. *)
PushString ==
  /\ lpc = "strings" /\ args # <<>> /\ Len(Pushed("string")) < MAX_ARGS
  /\ Push(Head(args) + 1, "string", 0)
  /\ args' = Tail(args)
  /\ UNCHANGED <<lpc, phdrs, todo, table, seen>>

(* The padding and argv[argc]. *)
Padding(total) == (total % 4) + 4

Align ==
  /\ lpc = "strings" /\ (args = <<>> \/ Len(Pushed("string")) = MAX_ARGS)
  /\ lpc' = "pointers"
  /\ Push(Padding(PHYS_BASE - esp), "null", 0)
  /\ UNCHANGED <<phdrs, todo, table, seen, args>>

(* The pointers, from the last one, then argv, argc and a return address. *)
PushPointer ==
  LET argc == Len(Pushed("string"))
      n == Len(Pushed("pointer"))
  IN  /\ lpc = "pointers"
      /\ IF n < argc
         THEN Push(4, "pointer", Pushed("string")[argc - n].at) /\ UNCHANGED lpc
         ELSE /\ esp' = esp - 12
              /\ stack' = stack \o << [at |-> esp - 4, size |-> 4, what |-> "argv", value |-> esp],
                                      [at |-> esp - 8, size |-> 4, what |-> "argc", value |-> argc],
                                      [at |-> esp - 12, size |-> 4, what |-> "return", value |-> 0] >>
              /\ lpc' = "user"
      /\ UNCHANGED <<phdrs, todo, table, seen, args>>

LoaderNext ==
  \/ \E ph \in Range(phdrs) : load_phdr(ph)
  \/ load_segment \/ setup_stack \/ PushString \/ Align \/ PushPointer

-----------------------------------------------------------------------------
(* Properties *)

PagesFor(ph) == pg_no(ph.vaddr)..pg_no(ph.vaddr + ph.memsz - 1)

Disjoint == \A p, q \in seen : p # q => PagesFor(p) \cap PagesFor(q) = {}

(* Every page that load asks for is a user page other than page 0, however *)
(* large the fields of the headers are (validate_segment).                 *)
UserPagesOnly ==
  \A i \in DOMAIN table : table[i].page \in 1..pg_no(PHYS_BASE - 1)

(* Once the segments are loaded, every byte of one is there: it comes from *)
(* its place in the file below filesz, and is zero from there to memsz; as *)
(* long as no two segments share a page, when the first keeps it.          *)
SegmentsThere ==
  lpc \in {"strings", "pointers", "user"} /\ Disjoint =>
    \A ph \in seen : \A b \in 0..ph.memsz - 1 :
      \E i \in DOMAIN table :
        LET a == ph.vaddr + b
        IN  /\ table[i].page = pg_no(a)
            /\ (b < ph.filesz) <=> (pg_ofs(a) < table[i].read)
            /\ b < ph.filesz => table[i].ofs + pg_ofs(a) = ph.offset + b

(* When the program starts, argc, argv and the strings are where the       *)
(* calling convention has them: argv is followed by the pointers to the    *)
(* strings in order and a null word, and nothing overlaps.                 *)
ArgumentsThere ==
  lpc = "user" =>
    LET at(a) == {e \in Range(stack) : e.at = a}
        word(a) == IF at(a) = {} THEN -1 ELSE (CHOOSE e \in at(a) : TRUE).value
        argc == word(esp + 4)
        argv == word(esp + 8)
    IN  /\ argc = Len(Pushed("string"))
        /\ \A i \in 1..argc : word(argv + 4 * (i - 1)) = Pushed("string")[i].at
        /\ word(argv + 4 * argc) = 0
        /\ \A i \in DOMAIN stack : i > 1 => stack[i].at + stack[i].size = stack[i - 1].at
        /\ \E e \in Range(stack) : e.what = "null" /\ e.size >= 4

(* The program starts with its segments and its arguments, in pages it may *)
(* use.                                                                    *)
ProgramThere == UserPagesOnly /\ SegmentsThere /\ ArgumentsThere
=============================================================================
