----------------------------- MODULE MCCInterface -----------------------------
(* Small instance of CInterface: two keys and the NUMS point, counts capped *)
(* at two, callbacks that are null, fail or do nothing, one or two unusual *)
(* arguments at a time.                                                    *)
EXTENDS CInterface

CONSTANTS k1, k2, k3, nums, data, tag

With(c, behaviour) == [Working EXCEPT ![c] = behaviour]
Vtables ==
    {Working} \cup {With(c, "null") : c \in DOMAIN Working}
    \cup {With(c, "nothing") : c \in {"sha256", "fill_random"}}
    \cup {With(c, b) : c \in {"aead_encrypt", "aead_decrypt"}, b \in {"fails", "nothing"}}

path == [len |-> 2, common |-> FALSE, null |-> FALSE]

Base == [null |-> {}, vtable |-> Working, keys |-> {k1}, paths |-> <<>>,
         type |-> STRING_, bip |-> 0, tag |-> <<tag>>, data |-> <<data>>, padding |-> 0]

MCEncryptions ==
    {Base}
    \cup {[Base EXCEPT !.vtable = v, !.keys = ks] : v \in Vtables, ks \in {{}, {k1}, {k1, nums}}}
    \cup {[Base EXCEPT !.vtable = With("fill_random", "nothing"), !.keys = {k1, k2}]}
    \cup {[Base EXCEPT !.keys = ks] : ks \in {{nums}, {k1, k2}, {k1, k2, nums}, {k1, k2, k3}}}
    \cup {[Base EXCEPT !.null = n, !.type = PROPRIETARY] :
             n \in {{p} : p \in {"vtable", "out", "keys", "payload", "paths", "tag", "err"}}
                   \cup {{}, {"out", "err"}}}
    \cup {[Base EXCEPT !.null = n, !.paths = <<path>>] : n \in {{}, {"paths"}}}
    \cup {[Base EXCEPT !.paths = <<path, [path EXCEPT !.len = l, !.null = n, !.common = c]>>] :
             l \in {0, 1, 3}, n \in BOOLEAN, c \in BOOLEAN}
    \cup {[Base EXCEPT !.type = t, !.bip = b] : t \in 0..10, b \in {0, 138, 39}}
    \cup {[Base EXCEPT !.data = <<>>, !.padding = p] : p \in {1, 2}}

MCDecryptions ==
    [null : {{}}, vtable : Vtables, key : {k1, k3}, bytes : {"buf"}]
    \cup [null : {{}, {"vtable"}, {"out"}, {"key", "err"}}, vtable : {Working},
          key : {k1, k2, nums}, bytes : {"buf", "Magic", "Corrupted"}]
=============================================================================
