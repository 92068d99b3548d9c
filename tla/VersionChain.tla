---------------------------- MODULE VersionChain ----------------------------
(***************************************************************************)
(* What the skill ledger promises of .skill-meta/versions/: a chain that   *)
(* only grows, in which every entry names the signature its predecessor    *)
(* carries.  The newest entry may be replaced by a signed one for the same *)
(* content (certify run again on unchanged files); an entry that has a     *)
(* successor is sealed.  SkillLedger is shown to implement this module     *)
(* when its commands run one at a time.                                    *)
(***************************************************************************)
EXTENDS Naturals, Sequences

CONSTANTS Contents,   \* what the files of the skill directory can hold
          Scans,      \* what the scans of a manifest can say
          NoSig       \* the signature of an unsigned entry

VARIABLE chain

Entry == [content : Contents, scans : Scans, prevSig : Nat, sig : Nat]

\* the signature the next entry has to name
HeadSig == IF chain = << >> THEN NoSig ELSE chain[Len(chain)].sig

ChainInit == chain = << >>

\* the entries before the newest one, and in Extend that one too, stay
Sealed(n) == \A i \in 1 .. n : chain'[i] = chain[i]

Extend ==
    /\ Len(chain') = Len(chain) + 1
    /\ Sealed(Len(chain))
    /\ chain'[Len(chain')].prevSig = HeadSig

Reseal ==
    /\ chain # << >>
    /\ Len(chain') = Len(chain)
    /\ Sealed(Len(chain) - 1)
    /\ LET old == chain[Len(chain)]
           new == chain'[Len(chain)]
       IN  /\ new.content = old.content
           /\ new.prevSig = old.prevSig
           /\ new.sig # NoSig

ChainNext == Extend \/ Reseal

ChainSpec == ChainInit /\ [][ChainNext /\ chain' \in Seq(Entry)]_chain
=============================================================================
