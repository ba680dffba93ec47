\* The manager's and the snapshot manager's RW locks under the miner, the
\* importer and two RPC handlers.
CONSTANTS
    Miner = Miner
    Importer = Importer
    RpcCallers = {r1, r2}
    Admin = Admin
    NoThread = NoThread
    RebuildBlocks = 2

SPECIFICATION FairSpec

PROPERTY CallsReturn
