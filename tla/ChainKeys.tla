----------------------------- MODULE ChainKeys -----------------------------
(***************************************************************************)
(* The chain database as RocksDB keeps it: one ordered space of keys for   *)
(* all the tables of ChainStore, told apart by the first bytes of the key  *)
(* (rocksdb/consensus/util.rs), and the reads of the interface as lookups  *)
(* and iterators over it.  An iterator is given a first key and sometimes  *)
(* an upper bound; without one it runs on into the tables that follow, and *)
(* only what the code makes of a value keeps its entries out.              *)
(***************************************************************************)
EXTENDS ChainStore, SequencesExt

CONSTANT HashRank   \* HashRank[h]: the place of h's hash in the order of bytes

ASSUME HashAssumption ==
    /\ HashRank \in [Headers -> Nat]
    /\ \A g, h \in Headers : HashRank[g] = HashRank[h] => g = h

-----------------------------------------------------------------------------
(* Keys and entries.                                                       *)

\* The prefixes in the order of their bytes.
PrefixRank == [__VERSION__ |-> 0, ancho |-> 1, best_ |-> 2, block |-> 3,
               chain |-> 4, child |-> 5, heade |-> 6, nonce |-> 7]

\* What follows the prefix: a slot, a hash, or two hashes.
Key(prefix, a, b) == <<PrefixRank[prefix], a, b>>

Before(k, l) ==
    \/ k[1] < l[1]
    \/ k[1] = l[1] /\ k[2] < l[2]
    \/ k[1] = l[1] /\ k[2] = l[2] /\ k[3] < l[3]

HashAt(n) == CHOOSE h \in Headers : HashRank[h] = n

\* An entry's value is known by its kind and by the header it speaks of.
Entry(key, kind, h) == [key |-> key, kind |-> kind, of |-> h]

Database ==
    {Entry(Key("__VERSION__", 0, 0), "version", NoHash)}
      \cup {Entry(Key("ancho", 0, 0), "hash", h) : h \in {anchor} \ {NoHash}}
      \cup {Entry(Key("best_", 0, 0), "hash", h) : h \in {best} \ {NoHash}}
      \cup {Entry(Key("block", HashRank[h], 0), "block", h) : h \in blocks}
      \cup {Entry(Key("chain", s, 0), "hash", chain[s]) : s \in Occupied(chain)}
      \cup {Entry(Key("child", HashRank[l[1]], HashRank[l[2]]), "empty", l[2])
              : l \in children}
      \cup {Entry(Key("heade", HashRank[h], 0), "header", h) : h \in headers}
      \cup {Entry(Key("nonce", HashRank[h], 0), "nonces", h) : h \in nonces}

\* get_pinned, for a value that must be of the given kind: no entry, or one
\* that does not decode, is None.
Get(db, key, kind) ==
    LET found == {e \in db : e.key = key /\ e.kind = kind}
    IN  IF found = {} THEN NoHash ELSE (CHOOSE e \in found : TRUE).of

InOrder(S) ==
    [i \in 1..Cardinality(S) |->
        CHOOSE e \in S : Cardinality({f \in S : Before(f.key, e.key)}) = i - 1]

\* IteratorMode::From without an upper bound.
From(db, key) == InOrder({e \in db : ~Before(e.key, key)})

\* PrefixRange: the keys that agree with the given one in its first n parts.
Ranged(db, key, n) ==
    InOrder({e \in db : \A i \in 1..n : e.key[i] = key[i]})

\* filter_map with a decoder: the entries of the kind, in the order they had.
Decoded(entries, kind) == InOrder({e \in ToSet(entries) : e.kind = kind})

-----------------------------------------------------------------------------
(* impl_ReadOnlyChainStore.                                                *)

LoadHeader(db, h) == Get(db, Key("heade", HashRank[h], 0), "header")

HasHeader(db, h) == \E e \in db : e.key = Key("heade", HashRank[h], 0)

GetAnchorHash(db) ==
    LET h == Get(db, Key("ancho", 0, 0), "hash")
    IN  IF h = NoHash THEN Origin ELSE h

GetNonces(db, h) == Get(db, Key("nonce", HashRank[h], 0), "nonces")

LoadBlock(db, h) == Get(db, Key("block", HashRank[h], 0), "block")

\* get_children: the second hash of each key in the parent's range.
ChildrenScan(db, h) ==
    LET it == Ranged(db, Key("child", HashRank[h], 0), 2)
    IN  [i \in DOMAIN it |-> HashAt(it[i].key[3])]

\* Mutant: whatever key comes next is taken for a chain point.
NextBestChainScanAny(db, p) ==
    LET it == From(db, Key("chain", SlotOf(p) + 1, 0))
    IN  IF DOMAIN it = {} THEN NoHash ELSE it[1].of

\* next_best_chain: past the last chain point the iterator stands on an entry
\* of another table, which the length of its value tells apart.
NextBestChainScan(db, p) ==
    LET it == From(db, Key("chain", SlotOf(p) + 1, 0))
    IN  IF DOMAIN it # {} /\ it[1].kind = "hash" THEN it[1].of ELSE NoHash

\* The keys rollback_chain deletes: from the slot after the point, within the
\* range of the chain prefix.
RollbackScan(db, p) ==
    InOrder({e \in ToSet(Ranged(db, Key("chain", 0, 0), 1)) :
                e.key[2] >= SlotOf(p) + 1})

-----------------------------------------------------------------------------
(* DiagnosticChainStore.                                                   *)

\* Mutant: the values are not decoded.
LoadHeadersUndecoded(db) == From(db, Key("heade", 0, 0))

\* load_headers: open_for_readonly gives the database no prefix extractor, so
\* that prefix_iterator does not stop at the end of the prefix.
LoadHeaders(db) == Decoded(From(db, Key("heade", 0, 0)), "header")

LoadNonces(db) == Decoded(From(db, Key("nonce", 0, 0)), "nonces")

LoadBlocks(db) == Ranged(db, Key("block", 0, 0), 1)

\* load_parents_children: one pass over the links in the order of their keys,
\* a group for each run of the same parent.
NoGroup == [groups |-> <<>>, parent |-> NoHash, children |-> <<>>]

Group(acc) == [parent |-> acc.parent, children |-> acc.children]

\* Mutant: the children of the group just closed are kept.
NextLinkKeeping(acc, e) ==
    LET parent == HashAt(e.key[2])
        child  == HashAt(e.key[3])
    IN  [groups   |-> IF acc.parent \in {parent, NoHash} THEN acc.groups
                      ELSE Append(acc.groups, Group(acc)),
         parent   |-> parent,
         children |-> Append(acc.children, child)]

NextLink(acc, e) ==
    LET parent == HashAt(e.key[2])
        child  == HashAt(e.key[3])
        closes == acc.parent \notin {parent, NoHash}
    IN  [groups   |-> IF closes THEN Append(acc.groups, Group(acc)) ELSE acc.groups,
         parent   |-> parent,
         children |-> Append(IF closes THEN <<>> ELSE acc.children, child)]

\* What the loop has found once it has read the first n entries.
Pass(it) ==
    LET acc[n \in 0..Len(it)] ==
            IF n = 0 THEN NoGroup ELSE NextLink(acc[n - 1], it[n])
    IN  acc[Len(it)]

\* The last group is closed by the end.
Closed(acc) ==
    IF acc.parent = NoHash THEN acc.groups ELSE Append(acc.groups, Group(acc))

LoadParentsChildren(db) == Closed(Pass(Ranged(db, Key("child", 0, 0), 1)))

-----------------------------------------------------------------------------
(* Properties.                                                             *)

HeadersOf(entries) == {entries[i].of : i \in DOMAIN entries}

\* A read returns entries of its own table and all of them, though the tables
\* share one order of keys and some iterators have no end: next_best_chain
\* past the last chain point, load_headers past the last header.
ReadsStayInTheirTable ==
  LET db == Database IN
    /\ \A p \in Points : NextBestChainScan(db, p) = NextBestChain(p)
    /\ \A p \in Points : {e.key[2] : e \in ToSet(RollbackScan(db, p))}
                           = {s \in Occupied(chain) : s >= SlotOf(p) + 1}
    /\ HeadersOf(LoadHeaders(db)) = headers /\ Len(LoadHeaders(db)) = Cardinality(headers)
    /\ HeadersOf(LoadNonces(db)) = nonces
    /\ HeadersOf(LoadBlocks(db)) = blocks
    /\ \A h \in Headers :
          /\ HasHeader(db, h) <=> h \in headers
          /\ LoadHeader(db, h) = (IF h \in headers THEN h ELSE NoHash)
          /\ GetNonces(db, h) = (IF h \in nonces THEN h ELSE NoHash)
          /\ LoadBlock(db, h) = (IF h \in blocks THEN h ELSE NoHash)
    /\ GetAnchorHash(db) = (IF anchor = NoHash THEN Origin ELSE anchor)

\* load_parents_children returns each parent once, with the children that
\* get_children returns for it, each once: every link of a stored header, the
\* last group's too, however the hashes fall in the order of keys.
GroupsMatchLinks ==
    LET db     == Database
        groups == LoadParentsChildren(db)
    IN  /\ {groups[i].parent : i \in DOMAIN groups} = {l[1] : l \in children}
        /\ \A i, j \in DOMAIN groups :
              groups[i].parent = groups[j].parent => i = j
        /\ \A i \in DOMAIN groups :
              /\ groups[i].children = ChildrenScan(db, groups[i].parent)
              /\ ToSet(groups[i].children) = GetChildren(groups[i].parent)
=============================================================================
