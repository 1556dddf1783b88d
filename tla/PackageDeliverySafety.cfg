CONSTANTS
    job = job research = research jobAgent = jobAgent researchAgent = researchAgent
    a1 = a1 a2 = a2 a2x = a2x b1 = b1 r1 = r1 read = read
    Hosts = {h1, h2}
    Accounts = {acct}
    Packages = {job, research}
    Artifacts = {a1, a2, r1}
    PackageOf <- Owners
    AgentIdOf <- Agents
    Precedence <- Steps
    VersionOf <- Steps
    PermissionsOf <- Grants
    Builtin = {a1}
    Nested = {a2}
    Approvals = {i1}
    Dirs = {d1, d2}
    Damageable <- UpgradesOnDisk
    None = None
SPECIFICATION Spec
SYMMETRY Symmetric
INVARIANTS TypeOK TreesBehindRows TornNeverServed ReceiptsTruthful OneOwnerPerAgent CatalogsCoherent
PROPERTY ImplementsVersions
