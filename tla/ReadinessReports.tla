-------------------------- MODULE ReadinessReports --------------------------
(* The readiness reports of one scan (reports.service.ts and its repository): *)
(* generated from what is persisted and not suppressed, numbered by version,  *)
(* exported, shared by a link, revoked, and read by whoever has the link.     *)
EXTENDS Naturals, FiniteSets, Sequences, FiniteSetsExt

CONSTANTS
  Callers,     \* calls of the API under way at a time
  Findings,    \* the findings of the scan
  MaxReports,  \* bound: reports
  MaxLinks,    \* bound: share links
  MaxReviews,  \* bound: changes by reviewers
  MaxFaults    \* bound: failed queries and writes

ASSUME ReportsAssumption == {MaxReports, MaxLinks, MaxReviews, MaxFaults} \subseteq Nat

Formats == {"HTML", "JSON", "MARKDOWN", "SARIF", "PDF"}

VARIABLES
  hidden,    \* the findings that are suppressed
  sharing,   \* publicReportSharingAllowed of the organization
  call,      \* [Callers -> where the call is, and what it has read]
  reports,   \* rows of Report, as they were written
  files,     \* artifacts of reports: [of |-> what they are made from, path]
  exports,   \* rows of ReportExport
  links,     \* rows of ReportShareLink
  served,    \* what was given to readers of a link
  reviews, faults

reportsVars == <<hidden, sharing, call, reports, files, exports, links, served, reviews, faults>>
rows == <<reports, files, exports, links, served>>

Free == [at |-> "free"]
Audited == [at |-> "audit"]  \* what is done is written to AuditLog, which nothing here reads

ReportsInit ==
  /\ hidden \in SUBSET Findings /\ sharing \in BOOLEAN
  /\ call = [c \in Callers |-> Free]
  /\ reports = <<>> /\ files = {} /\ exports = {} /\ links = <<>>
  /\ served = {} /\ reviews = 0 /\ faults = 0

Does(c, at) == call[c].at = at
Go(c, next) == call' = [call EXCEPT ![c] = next]
Versions == {reports[i].version : i \in DOMAIN reports}

(* Findings are suppressed and shown again (FindingReview), and the          *)
(* organization allows or forbids sharing.                                   *)
Reviewed ==
  /\ reviews < MaxReviews /\ reviews' = reviews + 1
  /\ \/ \E f \in Findings :
          hidden' = (IF f \in hidden THEN hidden \ {f} ELSE hidden \cup {f}) /\ UNCHANGED sharing
     \/ sharing' = ~sharing /\ UNCHANGED hidden
  /\ UNCHANGED <<call, rows, faults>>

-----------------------------------------------------------------------------
(* generate                                                                  *)

buildReportDocument(suppressed) == Findings \ suppressed

scanForReport(c) ==
  /\ Does(c, "free") /\ Len(reports) < MaxReports
  /\ Go(c, [at |-> "files", content |-> buildReportDocument(hidden), hiddenThen |-> hidden])
  /\ UNCHANGED <<hidden, sharing, rows, reviews, faults>>

(* report.json, report.md and report.html, under a number of its own.        *)
writeArtifacts(c) ==
  /\ Does(c, "files")
  /\ files' = files \cup {[of |-> call[c].content, path |-> p] : p \in {"JSON", "MARKDOWN", "HTML"}}
  /\ Go(c, [call[c] EXCEPT !.at = "number"])
  /\ UNCHANGED <<hidden, sharing, reports, exports, links, served, reviews, faults>>

(* Read before the transaction: two calls may read the same.                 *)
nextVersion(c) ==
  /\ Does(c, "number")
  /\ Go(c, [at |-> "create", content |-> call[c].content, hiddenThen |-> call[c].hiddenThen,
            version |-> 1 + Max(Versions \cup {0})])
  /\ UNCHANGED <<hidden, sharing, rows, reviews, faults>>

Add(c) ==
  /\ reports' = Append(reports, [version |-> call[c].version, content |-> call[c].content,
                                 hiddenThen |-> call[c].hiddenThen])
  /\ Go(c, Audited)
  /\ UNCHANGED <<hidden, sharing, files, exports, links, served, reviews, faults>>

(* The report, its sections, disclaimer and generation run, or none of them: *)
(* the pair of scan and version is unique.                                   *)
createReport(c) == Does(c, "create") /\ call[c].version \notin Versions /\ Add(c)

VersionTaken(c) ==
  /\ Does(c, "create") /\ call[c].version \in Versions /\ Go(c, Free)
  /\ UNCHANGED <<hidden, sharing, rows, reviews, faults>>

audit(c) ==
  /\ Does(c, "audit") /\ Go(c, Free)
  /\ UNCHANGED <<hidden, sharing, rows, reviews, faults>>

-----------------------------------------------------------------------------
(* export: paid for before it is known whether it can be done.               *)

Export(c, i, format) ==
  /\ Does(c, "free") /\ Go(c, [at |-> "pay", report |-> i, format |-> format])
  /\ UNCHANGED <<hidden, sharing, rows, reviews, faults>>

PayExport(c) ==
  /\ Does(c, "pay")
  /\ \/ Go(c, [call[c] EXCEPT !.at = "export"])
     \/ Go(c, Free)  \* no quota left; or paid for, and what is suppressed asked for
  /\ UNCHANGED <<hidden, sharing, rows, reviews, faults>>

\* Mutant: the document is built again.
rebuildDocument(report) == buildReportDocument(hidden)

reportToDocument(report) == report.content

renderExportArtifact(c) ==
  /\ Does(c, "export") /\ call[c].format # "PDF"
  /\ Go(c, [at |-> "exported", report |-> call[c].report, format |-> call[c].format,
            content |-> reportToDocument(reports[call[c].report])])
  /\ UNCHANGED <<hidden, sharing, rows, reviews, faults>>

createExport(c) ==
  /\ \/ /\ Does(c, "exported")
        /\ exports' = exports \cup {[report |-> call[c].report, format |-> call[c].format,
                                     status |-> "SUCCEEDED", content |-> call[c].content]}
     \/ /\ Does(c, "export") /\ call[c].format = "PDF"
        /\ exports' = exports \cup {[report |-> call[c].report, format |-> "PDF",
                                     status |-> "FAILED", content |-> {}]}
  /\ Go(c, Audited)
  /\ UNCHANGED <<hidden, sharing, reports, files, links, served, reviews, faults>>

-----------------------------------------------------------------------------
(* share, revokeShare and publicReport                                       *)

share(c, i) ==
  /\ Does(c, "free") /\ Len(links) < MaxLinks
  /\ IF sharing THEN Go(c, [at |-> "entitled", report |-> i]) ELSE Go(c, Free)
  /\ UNCHANGED <<hidden, sharing, rows, reviews, faults>>

createShareLink(c) ==
  /\ Does(c, "entitled")
  /\ \/ /\ links' = Append(links, [report |-> call[c].report, revoked |-> FALSE, expired |-> FALSE])
        /\ Go(c, Audited)
     \/ UNCHANGED links /\ Go(c, Free)  \* no entitlement, or not with what is suppressed
  /\ UNCHANGED <<hidden, sharing, reports, files, exports, served, reviews, faults>>

Expire(l) ==
  /\ ~links[l].expired /\ links' = [links EXCEPT ![l].expired = TRUE]
  /\ UNCHANGED <<hidden, sharing, call, reports, files, exports, served, reviews, faults>>

revokeShareLinks(c, i) ==
  /\ Does(c, "free")
  /\ links' = [l \in DOMAIN links |->
       IF links[l].report = i THEN [links[l] EXCEPT !.revoked = TRUE] ELSE links[l]]
  /\ Go(c, Audited)
  /\ UNCHANGED <<hidden, sharing, reports, files, exports, served, reviews, faults>>

(* The link and its report are read together; the time is looked at later.   *)
findPublic(c, l) ==
  /\ Does(c, "free")
  /\ Go(c, [at |-> "found", link |-> l, revoked |-> links[l].revoked])
  /\ UNCHANGED <<hidden, sharing, rows, reviews, faults>>

publicReport(c) ==
  /\ Does(c, "found") /\ Go(c, Free)
  /\ LET i == links[call[c].link].report
     IN served' = IF call[c].revoked \/ links[call[c].link].expired THEN served
                  ELSE served \cup {[link |-> call[c].link, report |-> i, content |-> reports[i].content]}
  /\ UNCHANGED <<hidden, sharing, reports, files, exports, links, reviews, faults>>

(* A query or a write fails: the call ends where it is.                      *)
CallFails(c) ==
  /\ ~Does(c, "free") /\ faults < MaxFaults /\ faults' = faults + 1
  /\ Go(c, Free) /\ UNCHANGED <<hidden, sharing, rows, reviews>>
ReportStep(c) ==
  \/ scanForReport(c) \/ writeArtifacts(c) \/ nextVersion(c) \/ createReport(c) \/ VersionTaken(c)
  \/ PayExport(c) \/ renderExportArtifact(c) \/ createExport(c) \/ createShareLink(c)
  \/ publicReport(c) \/ audit(c) \/ CallFails(c)
  \/ \E i \in DOMAIN reports :
       share(c, i) \/ revokeShareLinks(c, i) \/ \E format \in Formats : Export(c, i, format)
  \/ \E l \in DOMAIN links : findPublic(c, l)

ReportsNext ==
  \/ Reviewed
  \/ \E c \in Callers : ReportStep(c)
  \/ \E l \in DOMAIN links : Expire(l)

ReportsSpec == ReportsInit /\ [][ReportsNext]_reportsVars

-----------------------------------------------------------------------------
(* "the default export path never rehydrates hidden findings implicitly":    *)
(* an export and a public page show what their report was generated with,    *)
(* nothing that was suppressed then, whatever reviewers did since.           *)
NeverRehydrated ==
  \A o \in served \cup {e \in exports : e.status = "SUCCEEDED"} :
    /\ o.content = reports[o.report].content
    /\ o.content \cap reports[o.report].hiddenThen = {}
=============================================================================
