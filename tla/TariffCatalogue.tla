-------------------------- MODULE TariffCatalogue --------------------------
(***************************************************************************)
(* Which tariffs a distributor has (tariff_catalogue.py) and which the     *)
(* region starts from (active_tariff.py, default_tariff), read from the    *)
(* aemo-to-tariff library that happens to be installed.                    *)
(*                                                                         *)
(* A library is None when it cannot be imported, else the tables of the    *)
(* distributor: its import codes in the order of its table, its feed-in    *)
(* codes (None without such a table) and its battery tariffs, a list of    *)
(* import codes beside a list of export codes per customer type.           *)
(***************************************************************************)
EXTENDS Integers, Sequences, SequencesExt, Lists

CONSTANTS
  None,
  Snapshot,      \* DISTRIBUTOR_TARIFFS of the distributor, in its order
  Enabled,       \* its codes among DEFAULT_ENABLED_TARIFFS
  Programs,      \* EXPORT_TARIFF_PROGRAMS: import code to export code
  Overrides,     \* EXPORT_TARIFF_OVERRIDES
  WithX,         \* the code with an X after it, where that is a code
  Extensions     \* EXTENSIONS: a sequence of [code, feedIn]

\* EXTENSIONS is a dict by distributor and code.
CatalogueAssumption ==
  /\ Snapshot \in Seq(ToSet(Snapshot)) /\ None \notin ToSet(Snapshot)
  /\ Extensions \in Seq(ToSet(Extensions))
  /\ \A e \in ToSet(Extensions) : e.feedIn \in BOOLEAN
  /\ \A i, j \in DOMAIN Extensions : Extensions[i].code = Extensions[j].code => i = j

FeedIn(lib) == IF lib = None \/ lib.feedIn = None THEN {} ELSE lib.feedIn
ExtensionOf(code) == {e \in ToSet(Extensions) : e.code = code}

\* priced_by_extension(): only while the library lacks the code.
PricedByExtension(lib, code, export) ==
  /\ \E e \in ExtensionOf(code) : export => e.feedIn
  /\ lib = None \/ code \notin (IF export THEN FeedIn(lib) ELSE ToSet(lib.imports))

\* import_tariffs(): the library's table, then the extensions it lacks.
ImportTable(lib) ==
  LET extra == [i \in DOMAIN Extensions |-> Extensions[i].code]
  IN lib.imports \o Among(extra, ToSet(extra) \ ToSet(lib.imports))

\* import_tariff_codes(): the snapshot's order for what both have.
ImportCodes(lib) ==
  IF lib = None THEN Snapshot
  ELSE Among(Snapshot, ToSet(ImportTable(lib)))
       \o Among(ImportTable(lib), ToSet(ImportTable(lib)) \ ToSet(Snapshot))

\* default_tariff(), for a region of one distributor.
DefaultTariff(lib) ==
  LET on == Among(ImportCodes(lib), Enabled)
  IN IF on = <<>> THEN None ELSE Head(on)

-----------------------------------------------------------------------------
(* Export programs.                                                         *)

\* _library_export_codes()
ExportCodes(lib) ==
  FeedIn(lib) \union (UNION {ToSet(b.exports) : b \in ToSet(lib.battery)})
              \union {e.code : e \in {x \in ToSet(Extensions) : x.feedIn}}

\* The pairs one customer type's lists make, taken positionally.
Positional(b) ==
  IF Len(b.imports) # Len(b.exports) THEN {}
  ELSE {<<b.imports[i], b.exports[i]>> : i \in DOMAIN b.imports}

\* export_programs(): the code itself, the code with an X, the first battery
\* list that pairs it; an override wins over all of them.
Program(battery, exports, code) ==
  LET listed == SelectSeq(battery,
                          LAMBDA b : \E p \in Positional(b) : p[1] = code /\ p[2] \in exports)
  IN IF code \in exports THEN code
     ELSE IF code \in DOMAIN WithX /\ WithX[code] \in exports THEN WithX[code]
     ELSE IF listed = <<>> THEN None
     ELSE LET b == Head(listed)
              i == CHOOSE i \in DOMAIN b.imports :
                     /\ b.imports[i] = code /\ b.exports[i] \in exports
                     /\ \A j \in 1..(i - 1) : b.imports[j] # code \/ b.exports[j] \notin exports
          IN b.exports[i]
ExportOf(lib, code) == Program(lib.battery, ExportCodes(lib), code)

ExportPrograms(lib) ==
  LET derived == {c \in ToSet(ImportCodes(lib)) : lib # None /\ ExportOf(lib, c) # None}
      known == IF lib = None THEN DOMAIN Programs ELSE derived
  IN [c \in known \union DOMAIN Overrides |->
        IF c \in DOMAIN Overrides THEN Overrides[c]
        ELSE IF lib = None THEN Programs[c] ELSE ExportOf(lib, c)]

\* unpaired_export_codes()
Unpaired(lib) ==
  ExportCodes(lib) \ {ExportPrograms(lib)[c] : c \in DOMAIN ExportPrograms(lib)}

\* export_program_supported(): refused only by a table that lacks the code.
ExportSupported(lib, code) ==
  PricedByExtension(lib, code, TRUE) \/ lib = None \/ lib.feedIn = None \/ code \in lib.feedIn

-----------------------------------------------------------------------------
\* The region's default does not move, and no code it had changes its place
\* among the others it had, when a release of the library reorders its table
\* or carries codes the integration had not heard of.
DefaultIsPinned(lib, later) ==
  /\ ToSet(lib.imports) \subseteq ToSet(later.imports)
  /\ (ToSet(later.imports) \ ToSet(lib.imports)) \intersect ToSet(Snapshot) = {}
  /\ DefaultTariff(lib) \in ToSet(Snapshot)
  => /\ DefaultTariff(later) = DefaultTariff(lib)
     /\ Among(ImportCodes(later), ToSet(Snapshot)) = Among(ImportCodes(lib), ToSet(Snapshot))

\* The library as it is once a release carries an extension.
TakenOver(lib, e) ==
  [lib EXCEPT !.imports = Append(@, e.code),
              !.feedIn = IF @ = None \/ ~e.feedIn THEN @ ELSE @ \union {e.code}]

\* The day a release carries the last extension the library lacked nothing
\* but its price source changes: the codes, their order, what they are paired
\* with, and which of those can be priced.
TakeoverIsSeamless(lib) ==
  \A e \in ToSet(Extensions) :
    LET later == TakenOver(lib, e) IN
    {x \in ToSet(Extensions) : PricedByExtension(lib, x.code, FALSE)} = {e} =>
      /\ ~PricedByExtension(later, e.code, FALSE)
      /\ ImportCodes(later) = ImportCodes(lib)
      /\ ExportPrograms(later) = ExportPrograms(lib)
      /\ Unpaired(later) = Unpaired(lib)
      /\ \A c \in DOMAIN ExportPrograms(lib) :
           ExportSupported(later, ExportPrograms(lib)[c]) <=> ExportSupported(lib, ExportPrograms(lib)[c])
=============================================================================
