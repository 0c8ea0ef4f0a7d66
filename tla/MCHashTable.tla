------------------------------ MODULE MCHashTable ------------------------------
\* Three keys and a table of one or two chains that grows to two, to four or to
\* six, or as the caller reserves.  The keys differ by their hash only: of the
\* functions that differ by a renaming of the keys one is enough.
EXTENDS HashTableProperties
MCHashes == {h \in [Key -> {0, 2, 3}] : \A j, k \in Key : j < k => h[j] <= h[k]}
=============================================================================
