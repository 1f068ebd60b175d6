INIT StoresInit
NEXT StoresNext
CONSTANTS
 c1 = c1
 c2 = c2
 e1 = e1
 e2 = e2
 r1 = r1
 Editors = {e1, e2}
 Readers = {r1}
 Targets = {"a"}
 MaxDecisions = 2
 MaxEdits = 3
 MaxReads = 2
 MaxTick = 1
 MaxMisses = 1
 Updaters = {e1, e2}
 Scans = {r1}
 Languages = {"EN"}
 OutputDirs = {"d1"}
 Denylists <- MCDenylists
 LegacyNames = {"a"}
 MaxPuts = 2
 MaxReloads = 1
 MaxFaults = 2
 Syncers = {e1, e2}
 MaxRowChanges = 2
 MaxSyncFaults = 1
 Spelling <- MCSpelling
 Undated <- MCUndated
 Likeness <- MCLikeness
 Inside <- MCInside
 Comparable <- MCComparable
 Sentinels = {"general","other"}
 Malformed = {"recu_pdf", "2024"}
 PublicTaxonomy <- MCPublic
 Callers = {c1, c2}
 Homes <- MCHomes
 Proposals <- MCProposals
 UserEdits <- MCUserEdits
 MaxCalls = 3
 MaxHints = 2
 MaxCrashes = 1
INVARIANTS
 MirrorsSound SettingsKept TaxonomyKept
PROPERTIES CreatedStays
SYMMETRY Interchangeable
CHECK_DEADLOCK FALSE
